---- MODULE Spec2Model ----
(***************************************************************************)
(* A model of opnix: manifest validation (internal/validation), path       *)
(* resolution and secret materialization (internal/secrets), and the      *)
(* content-hash change detection with service reconciliation              *)
(* (internal/systemd).                                                     *)
(*                                                                         *)
(* Go strings are sequences of one-character strings, so that substring    *)
(* tests, prefix tests, splitting and placeholder substitution are         *)
(* computed as the code computes them.                                     *)
(***************************************************************************)
EXTENDS Integers, Sequences, FiniteSets, TLC

(***************************************************************************)
(* Bounds of the model.                                                    *)
(***************************************************************************)
MaxSecrets == 2
MaxModeLen == 4
MaxRefTail == 6
MaxSubstSteps == 4
MaxRetriesBound == 3
MaxRuns == 2

MaxWrites == 3

MaxDocs == 2

(***************************************************************************)
(* strings.* and path/filepath.* of the Go standard library                *)
(***************************************************************************)
Drop(s, n) == IF n >= Len(s) THEN <<>> ELSE SubSeq(s, n + 1, Len(s))

Take(s, n) == IF n <= 0 THEN <<>> ELSE SubSeq(s, 1, IF n < Len(s) THEN n ELSE Len(s))

HasPrefix(s, pre) == Len(pre) <= Len(s) /\ SubSeq(s, 1, Len(pre)) = pre

\* strings.Index, 1-based; 0 when sub does not occur in s
Index(s, sub) ==
    LET hits == {i \in 1..(Len(s) - Len(sub) + 1) : SubSeq(s, i, i + Len(sub) - 1) = sub}
    IN  IF hits = {} THEN 0 ELSE CHOOSE i \in hits : \A j \in hits : i <= j

Contains(s, sub) == Index(s, sub) # 0

RECURSIVE ReplaceAll(_, _, _)
ReplaceAll(s, old, new) ==
    LET i == Index(s, old)
    IN  IF i = 0 THEN s
        ELSE Take(s, i - 1) \o new \o ReplaceAll(Drop(s, i - 1 + Len(old)), old, new)

RECURSIVE Split(_, _)
Split(s, sep) ==
    LET i == Index(s, sep)
    IN  IF i = 0 THEN <<s>>
        ELSE <<Take(s, i - 1)>> \o Split(Drop(s, i), sep)

TrimPrefix(s, pre) == IF HasPrefix(s, pre) THEN Drop(s, Len(pre)) ELSE s

RECURSIVE JoinSegs(_)
JoinSegs(segs) ==
    IF Len(segs) = 0 THEN <<>>
    ELSE IF Len(segs) = 1 THEN segs[1]
    ELSE segs[1] \o <<"/">> \o JoinSegs(Tail(segs))

\* the element stack of filepath.Clean: "." and empty elements vanish, ".."
\* removes the element before it, or is dropped at the root
RECURSIVE CleanSegs(_, _, _)
CleanSegs(segs, stack, rooted) ==
    IF Len(segs) = 0 THEN stack
    ELSE LET e == Head(segs)
             rest == Tail(segs)
         IN  IF e = <<>> \/ e = <<".">> THEN CleanSegs(rest, stack, rooted)
             ELSE IF e = <<".", ".">>
                  THEN IF Len(stack) > 0 /\ stack[Len(stack)] # <<".", ".">>
                       THEN CleanSegs(rest, Take(stack, Len(stack) - 1), rooted)
                       ELSE IF rooted THEN CleanSegs(rest, stack, rooted)
                       ELSE CleanSegs(rest, Append(stack, e), rooted)
             ELSE CleanSegs(rest, Append(stack, e), rooted)

Clean(p) ==
    IF p = <<>> THEN <<".">>
    ELSE LET rooted == p[1] = "/"
             body == JoinSegs(CleanSegs(Split(p, <<"/">>), <<>>, rooted))
         IN  IF rooted THEN <<"/">> \o body
             ELSE IF body = <<>> THEN <<".">> ELSE body

IsAbs(p) == HasPrefix(p, <<"/">>)

\* filepath.Join of two elements: empty elements are ignored, the rest is
\* joined with a separator and cleaned
Join(a, b) ==
    IF a = <<>> /\ b = <<>> THEN <<>>
    ELSE IF a = <<>> THEN Clean(b)
    ELSE IF b = <<>> THEN Clean(a)
    ELSE Clean(a \o <<"/">> \o b)

\* filepath.Dir: everything before the last separator, cleaned
Dir(p) ==
    LET seps == {i \in 1..Len(p) : p[i] = "/"}
    IN  IF seps = {} THEN <<".">>
        ELSE Clean(Take(p, CHOOSE i \in seps : \A j \in seps : j <= i))

(***************************************************************************)
(* internal/validation: the manifest validator                             *)
(***************************************************************************)
NoError == [kind |-> "ok", secret |-> 0]

Err(k, i) == [kind |-> k, secret |-> i]

\* the merge of defaults and variables, the secret's variables winning
AllVars(variables, defaults) ==
    [k \in (DOMAIN defaults) \cup (DOMAIN variables) |->
        IF k \in DOMAIN variables THEN variables[k] ELSE defaults[k]]

\* the matches of the pattern \{([^}]+)\} in s, leftmost first, not overlapping
RECURSIVE FindPlaceholders(_)
FindPlaceholders(s) ==
    LET open == Index(s, <<"{">>)
    IN  IF open = 0 THEN <<>>
        ELSE LET rest == Drop(s, open - 1)
                 close == Index(rest, <<"}">>)
             IN  IF close = 0 THEN <<>>
                 ELSE IF close = 2 THEN FindPlaceholders(Drop(rest, 1))
                 ELSE <<Take(rest, close)>> \o FindPlaceholders(Drop(rest, close))

\* the backquote is written "bq"
DangerousChars == {";", "&", "|", "$", "bq", "(", ")", "<", ">"}

ValidatorValidateVariableValue(value) ==
    IF Contains(value, <<".", ".">>) THEN "var_traversal"
    ELSE IF \E i \in 1..Len(value) : value[i] \in DangerousChars THEN "var_dangerous"
    ELSE "ok"

\* the loop of Validator.substituteVariables over the matches found in the
\* template; yields [err, path]
RECURSIVE ValidatorSubstLoop(_, _, _)
ValidatorSubstLoop(matches, result, vars) ==
    IF Len(matches) = 0 THEN [err |-> "ok", path |-> result]
    ELSE LET placeholder == Head(matches)
             varName == SubSeq(placeholder, 2, Len(placeholder) - 1)
         IN  IF varName \notin DOMAIN vars THEN [err |-> "var_unresolved", path |-> <<>>]
             ELSE IF ValidatorValidateVariableValue(vars[varName]) # "ok"
                  THEN [err |-> ValidatorValidateVariableValue(vars[varName]), path |-> <<>>]
             ELSE ValidatorSubstLoop(Tail(matches),
                                     ReplaceAll(result, placeholder, vars[varName]), vars)

ValidatorSubstituteVariables(template, variables, defaults) ==
    ValidatorSubstLoop(FindPlaceholders(template), template, AllVars(variables, defaults))

ValidatorResolvePath(path, template, variables, defaults) ==
    IF path # <<>> THEN ValidatorSubstituteVariables(path, variables, defaults)
    ELSE IF template = <<>> THEN [err |-> "path_missing", path |-> <<>>]
    ELSE ValidatorSubstituteVariables(template, variables, defaults)

DangerousPaths ==
    { <<"/", "b", "i", "n">>, <<"/", "s", "b", "i", "n">>,
      <<"/", "u", "s", "r", "/", "b", "i", "n">>,
      <<"/", "u", "s", "r", "/", "s", "b", "i", "n">>,
      <<"/", "b", "o", "o", "t">>, <<"/", "d", "e", "v">>,
      <<"/", "p", "r", "o", "c">>, <<"/", "s", "y", "s">>,
      <<"/", "e", "t", "c", "/", "p", "a", "s", "s", "w", "d">>,
      <<"/", "e", "t", "c", "/", "s", "h", "a", "d", "o", "w">>,
      <<"/", "e", "t", "c", "/", "g", "r", "o", "u", "p">> }

ValidateAbsolutePath(path) == ~ \E d \in DangerousPaths : HasPrefix(path, d)

\* yields [err, seen]: the error kind and the paths claimed so far
ValidatePath_NoClaim(path, seen) ==
    IF path = <<>> THEN [err |-> "path_empty", seen |-> seen]
    ELSE IF Contains(path, <<".", ".">>) THEN [err |-> "path_traversal", seen |-> seen]
    ELSE IF path \in seen THEN [err |-> "path_duplicate", seen |-> seen]
    ELSE IF IsAbs(path) /\ ~ValidateAbsolutePath(path)
         THEN [err |-> "path_dangerous", seen |-> seen]
    ELSE [err |-> "ok", seen |-> seen]

ValidatePath_NoTraversal(path, seen) ==
    IF path = <<>> THEN [err |-> "path_empty", seen |-> seen]
    ELSE IF path \in seen THEN [err |-> "path_duplicate", seen |-> seen]
    ELSE IF IsAbs(path) /\ ~ValidateAbsolutePath(path)
         THEN [err |-> "path_dangerous", seen |-> seen \cup {path}]
    ELSE [err |-> "ok", seen |-> seen \cup {path}]

ValidatePath(path, seen) ==
    IF path = <<>> THEN [err |-> "path_empty", seen |-> seen]
    ELSE IF Contains(path, <<".", ".">>) THEN [err |-> "path_traversal", seen |-> seen]
    ELSE IF path \in seen THEN [err |-> "path_duplicate", seen |-> seen]
    ELSE IF IsAbs(path) /\ ~ValidateAbsolutePath(path)
         THEN [err |-> "path_dangerous", seen |-> seen \cup {path}]
    ELSE [err |-> "ok", seen |-> seen \cup {path}]

RECURSIVE ValidateSymlinks(_, _)
ValidateSymlinks(symlinks, seen) ==
    IF Len(symlinks) = 0 THEN [err |-> "ok", seen |-> seen]
    ELSE LET symlink == Head(symlinks)
         IN  IF symlink = <<>> THEN [err |-> "symlink_empty", seen |-> seen]
             ELSE IF Contains(symlink, <<".", ".">>)
                  THEN [err |-> "symlink_traversal", seen |-> seen]
             ELSE IF IsAbs(symlink) /\ ~ValidateAbsolutePath(symlink)
                  THEN [err |-> "symlink_dangerous", seen |-> seen]
             ELSE IF symlink \in seen THEN [err |-> "symlink_duplicate", seen |-> seen]
             ELSE ValidateSymlinks(Tail(symlinks), seen \cup {symlink})

RefScheme == <<"o", "p", ":", "/", "/">>

ValidateReference(reference) ==
    IF reference = <<>> THEN "ref_empty"
    ELSE IF ~HasPrefix(reference, RefScheme) THEN "ref_format"
    ELSE LET parts == Split(TrimPrefix(reference, RefScheme), <<"/">>)
         IN  IF Len(parts) < 3 THEN "ref_parts"
             ELSE IF parts[1] = <<>> THEN "ref_vault"
             ELSE IF parts[2] = <<>> THEN "ref_item"
             ELSE IF parts[Len(parts)] = <<>> THEN "ref_field"
             ELSE "ok"

OctalDigits == {"0", "1", "2", "3", "4", "5", "6", "7"}

DigitValue(c) ==
    CASE c = "0" -> 0 [] c = "1" -> 1 [] c = "2" -> 2 [] c = "3" -> 3
      [] c = "4" -> 4 [] c = "5" -> 5 [] c = "6" -> 6 [] c = "7" -> 7
      [] OTHER -> 8

\* strconv.ParseUint(mode, 8, 32) of a string of octal digits
RECURSIVE ParseOctal(_)
ParseOctal(mode) ==
    IF Len(mode) = 0 THEN 0
    ELSE 8 * ParseOctal(Take(mode, Len(mode) - 1)) + DigitValue(mode[Len(mode)])

\* the pattern ^[0-7]{3,4}$
ModePattern(mode) ==
    /\ Len(mode) \in {3, 4}
    /\ \A i \in 1..Len(mode) : mode[i] \in OctalDigits

WorldWritable(modeInt) == (modeInt \div 2) % 2 = 1

ValidateModeSecurity_GroupBit(mode) ==
    IF (ParseOctal(mode) \div 16) % 2 = 1 THEN "mode_world_write" ELSE "ok"

ValidateModeSecurity(mode) ==
    IF WorldWritable(ParseOctal(mode)) THEN "mode_world_write" ELSE "ok"

ValidateMode(mode) ==
    IF mode = <<>> THEN "ok"
    ELSE IF ~ModePattern(mode) THEN "mode_format"
    ELSE ValidateModeSecurity(mode)

ValidateOwnership(owner, group, users, groups) ==
    IF owner # "" /\ owner # "root" /\ owner \notin users THEN "owner_unknown"
    ELSE IF group # "" /\ group # "root" /\ group \notin groups THEN "group_unknown"
    ELSE "ok"

\* Validator.validateSecret on one SecretData; yields [err, seen]
ValidateSecret(s, template, defaults, seen, users, groups) ==
    LET refErr == ValidateReference(s.reference)
        res == ValidatorResolvePath(s.path, template, s.variables, defaults)
        pathRes == ValidatePath(res.path, seen)
        symRes == ValidateSymlinks(s.symlinks, pathRes.seen)
        ownErr == ValidateOwnership(s.owner, s.group, users, groups)
        modeErr == ValidateMode(s.mode)
    IN  IF refErr # "ok" THEN [err |-> refErr, seen |-> seen]
        ELSE IF res.err # "ok" THEN [err |-> res.err, seen |-> seen]
        ELSE IF pathRes.err # "ok" THEN pathRes
        ELSE IF symRes.err # "ok" THEN symRes
        ELSE IF ownErr # "ok" THEN [err |-> ownErr, seen |-> symRes.seen]
        ELSE IF modeErr # "ok" THEN [err |-> modeErr, seen |-> symRes.seen]
        ELSE [err |-> "ok", seen |-> symRes.seen]

RECURSIVE ValidateFrom(_, _, _, _, _, _, _)
ValidateFrom(secrets, i, template, defaults, seen, users, groups) ==
    IF i > Len(secrets) THEN NoError
    ELSE LET r == ValidateSecret(secrets[i], template, defaults, seen, users, groups)
         IN  IF r.err # "ok" THEN Err(r.err, i)
             ELSE ValidateFrom(secrets, i + 1, template, defaults, r.seen, users, groups)

ValidateConfigStruct(secrets, template, defaults, users, groups) ==
    IF Len(secrets) = 0 THEN Err("no_secrets", 0)
    ELSE ValidateFrom(secrets, 1, template, defaults, {}, users, groups)

(***************************************************************************)
(* internal/config: Load and LoadMultiple                                  *)
(***************************************************************************)
\* the SystemdIntegration of a document that has none
ZeroPolicy ==
    [enable |-> FALSE, restartOnChange |-> FALSE, changeDetection |-> FALSE,
     continueOnError |-> FALSE, maxRetries |-> 0]

Config(secrets, template, defaults, policy) ==
    [secrets |-> secrets, pathTemplate |-> template, defaults |-> defaults,
     policy |-> policy]

NoConfig == Config(<<>>, <<>>, <<>>, ZeroPolicy)

\* config.Load of one document: it is validated on its own
LoadDocument(d, users, groups) ==
    ValidateConfigStruct(d.secrets, d.pathTemplate, d.defaults, users, groups)

RECURSIVE AllSecrets(_)
AllSecrets(docs) ==
    IF Len(docs) = 0 THEN <<>> ELSE Head(docs).secrets \o AllSecrets(Tail(docs))

\* the second loop of LoadMultiple: the last non-empty value wins
RECURSIVE FinalPathTemplate(_)
FinalPathTemplate(docs) ==
    IF Len(docs) = 0 THEN <<>>
    ELSE IF docs[Len(docs)].pathTemplate # <<>> THEN docs[Len(docs)].pathTemplate
    ELSE FinalPathTemplate(SubSeq(docs, 1, Len(docs) - 1))

RECURSIVE FinalDefaults(_)
FinalDefaults(docs) ==
    IF Len(docs) = 0 THEN <<>>
    ELSE IF docs[Len(docs)].defaults # <<>> THEN docs[Len(docs)].defaults
    ELSE FinalDefaults(SubSeq(docs, 1, Len(docs) - 1))

\* the first document that Load rejects, 0 when there is none
FirstRejected(docs, users, groups) ==
    IF \E i \in 1..Len(docs) : LoadDocument(docs[i], users, groups).kind # "ok"
    THEN CHOOSE i \in 1..Len(docs) :
            /\ LoadDocument(docs[i], users, groups).kind # "ok"
            /\ \A j \in 1..(i - 1) : LoadDocument(docs[j], users, groups).kind = "ok"
    ELSE 0

\* config.LoadMultiple; yields [err, doc, config], doc being the document
\* that Load rejected
LoadMultiple(docs, users, groups) ==
    LET bad == FirstRejected(docs, users, groups)
        merged == Config(AllSecrets(docs), FinalPathTemplate(docs), FinalDefaults(docs),
                         ZeroPolicy)
        v == ValidateConfigStruct(merged.secrets, merged.pathTemplate, merged.defaults,
                                  users, groups)
    IN  IF Len(docs) = 0 THEN [err |-> Err("no_paths", 0), doc |-> 0, config |-> NoConfig]
        ELSE IF bad # 0
             THEN [err |-> LoadDocument(docs[bad], users, groups), doc |-> bad,
                   config |-> NoConfig]
        ELSE IF v.kind # "ok" THEN [err |-> v, doc |-> 0, config |-> NoConfig]
        ELSE [err |-> NoError, doc |-> 0, config |-> merged]

(***************************************************************************)
(* internal/secrets: the materializer's own path resolution                *)
(***************************************************************************)
ProcessorValidateVariableValue(value) ==
    IF Contains(value, <<".", ".">>) THEN "var_traversal" ELSE "ok"

\* the loop of Processor.substituteVariables, which searches the RESULT for
\* the next placeholder; fuel bounds the iterations, "diverges" stands for a
\* loop that is still running when the fuel is used up
RECURSIVE ProcessorSubstLoop(_, _, _)
ProcessorSubstLoop(result, vars, fuel) ==
    IF ~(Contains(result, <<"{">>) /\ Contains(result, <<"}">>))
    THEN [err |-> "ok", path |-> result]
    ELSE LET start == Index(result, <<"{">>)
             end == Index(Drop(result, start - 1), <<"}">>)
             placeholder == SubSeq(result, start, start + end - 1)
             varName == SubSeq(placeholder, 2, Len(placeholder) - 1)
         IN  IF end = 0 THEN [err |-> "ok", path |-> result]
             ELSE IF varName \notin DOMAIN vars THEN [err |-> "var_unresolved", path |-> <<>>]
             ELSE IF ProcessorValidateVariableValue(vars[varName]) # "ok"
                  THEN [err |-> "var_traversal", path |-> <<>>]
             ELSE IF fuel = 0 THEN [err |-> "diverges", path |-> <<>>]
             ELSE ProcessorSubstLoop(ReplaceAll(result, placeholder, vars[varName]),
                                     vars, fuel - 1)

ProcessorSubstituteVariables(template, variables, defaults) ==
    ProcessorSubstLoop(template, AllVars(variables, defaults), MaxSubstSteps)

\* one pass of the loop of Processor.substituteVariables: the test of the
\* loop and, when it holds, the body; yields the position the loop is at
\* afterwards and the result so far
ProcessorSubstIteration(result, vars) ==
    IF ~(Contains(result, <<"{">>) /\ Contains(result, <<"}">>))
    THEN [pc |-> "done", result |-> result, err |-> "ok"]
    ELSE LET start == Index(result, <<"{">>)
             end == Index(Drop(result, start - 1), <<"}">>)
             placeholder == SubSeq(result, start, start + end - 1)
             varName == SubSeq(placeholder, 2, Len(placeholder) - 1)
         IN  IF end = 0 THEN [pc |-> "done", result |-> result, err |-> "ok"]
             ELSE IF varName \notin DOMAIN vars
                  THEN [pc |-> "failed", result |-> <<>>, err |-> "var_unresolved"]
             ELSE IF ProcessorValidateVariableValue(vars[varName]) # "ok"
                  THEN [pc |-> "failed", result |-> <<>>, err |-> "var_traversal"]
             ELSE [pc |-> "loop", result |-> ReplaceAll(result, placeholder, vars[varName]),
                   err |-> "ok"]

ResolveSecretPath(secretPath, outDir) ==
    IF IsAbs(secretPath) THEN secretPath ELSE Join(outDir, secretPath)

ResolveSecretPathWithTemplate(s, template, defaults, outDir) ==
    LET src == IF s.path # <<>> THEN s.path ELSE template
        r == ProcessorSubstituteVariables(src, s.variables, defaults)
    IN  IF s.path = <<>> /\ template = <<>> THEN [err |-> "path_missing", path |-> <<>>]
        ELSE IF r.err # "ok" THEN r
        ELSE [err |-> "ok", path |-> ResolveSecretPath(r.path, outDir)]

\* the string checks of Processor.validateSecretPath
ValidateSecretPath(resolvedPath) ==
    IF Contains(resolvedPath, <<".", ".">>) THEN "path_traversal"
    ELSE IF \E d \in DangerousPaths : HasPrefix(resolvedPath, d) THEN "path_dangerous"
    ELSE "ok"

(***************************************************************************)
(* State.  The pipeline of the secret command (cmd/opnix), the store and    *)
(* manager of internal/systemd.                                            *)
(***************************************************************************)
VARIABLES
    manifest,      \* config.Config.Secrets
    pathTemplate,  \* config.Config.PathTemplate
    defaults,      \* config.Config.Defaults
    outputDir,     \* secretCommand.outputDir
    sysUsers,      \* the users os/user can look up
    sysGroups,     \* the groups os/user can look up
    pc,            \* position of secretCommand.Run
    loadErr,       \* the error of config.Load
    idx,           \* the secret Processor.Process is at
    vaultCalls,    \* number of SecretClient.ResolveSecret calls made
    fs,            \* the files and symlinks on disk, path -> entry
    fileWrites,    \* number of os.WriteFile calls that went through
    procErr,       \* the error of Processor.Process
    refIn,         \* the reference handed to Validator.validateReference
    refOut,        \* what validateReference returned for it
    docs,          \* the documents handed to config.LoadMultiple
    merged,        \* what LoadMultiple returned for them
    resOut,        \* what the validator and the materializer resolved for a secret
    subst,         \* the loop of Processor.substituteVariables: position and result
    wf,            \* the os.WriteFile call of processSecret: position, data, bytes written
    onDisk,        \* the file at the resolved path while os.WriteFile runs
    observed,      \* what a concurrent reader of the resolved path read last
    cfg,           \* Manager.config, a config.SystemdIntegration
    dryRun,        \* Manager.dryRun
    secretPaths,   \* the secretPaths argument of ProcessSecretChanges
    failsBefore,   \* per service, how many dispatches fail before one succeeds
    saveOk,        \* whether the hash file can be written
    files,         \* the secret files on disk, path -> content and mtime
    diskStore,     \* the hash file on disk
    mgr,           \* position of the run of the Manager
    Hashes,        \* HashStore.Hashes of the Manager in memory
    clock,         \* the time, counted in materializations
    horizon,       \* the last time the model follows
    runPre,        \* observed at the start of ProcessSecretChanges
    prevRun,       \* observed at the end of the previous ProcessSecretChanges
    changed,       \* changedSecrets of the last ProcessSecretChanges
    dispatches,    \* the commands executed by the last ProcessSecretChanges
    failures,      \* failures of the last processServiceActions
    result,        \* what the last ProcessSecretChanges returned
    saved,         \* whether the last ProcessSecretChanges wrote the hash file
    lastCall       \* the last hasChanged call and what it returned

pvars == <<manifest, pathTemplate, defaults, outputDir, sysUsers, sysGroups,
           pc, loadErr, idx, vaultCalls, fs, fileWrites, procErr>>

fvars == <<refIn, refOut, docs, merged, resOut, subst, wf, onDisk, observed>>

rvars == <<cfg, dryRun, secretPaths, failsBefore, saveOk, files, diskStore, mgr, Hashes,
           clock, horizon, runPre, prevRun, changed, dispatches, failures, result, saved,
           lastCall>>

vars == <<pvars, fvars, rvars>>

(***************************************************************************)
(* The file system as the materializer uses it                             *)
(***************************************************************************)
FileEntry(content, mode, owner, group) ==
    [kind |-> "file", content |-> content, target |-> <<>>, mode |-> mode,
     owner |-> owner, group |-> group]

LinkEntry(target) ==
    [kind |-> "link", content |-> "", target |-> target, mode |-> <<>>,
     owner |-> "", group |-> ""]

Put(f, k, v) == [x \in (DOMAIN f) \cup {k} |-> IF x = k THEN v ELSE f[x]]

Remove(f, k) == [x \in (DOMAIN f) \ {k} |-> f[x]]

\* the file a path names once symbolic links are followed
RECURSIVE FollowLinks(_, _, _)
FollowLinks(f, p, fuel) ==
    IF p \in DOMAIN f /\ f[p].kind = "link" /\ fuel > 0
    THEN FollowLinks(f, f[p].target, fuel - 1)
    ELSE p

\* the name the path stands for once its links are followed
Target(f, p) == FollowLinks(f, p, Cardinality(DOMAIN f))

\* the user the command runs as
ProcessUser == "root"

\* os.WriteFile: truncates the file the path names and keeps its permission
\* bits and owner, or creates it with perm when there is none
WriteFile(f, p, content, perm) ==
    LET t == Target(f, p)
    IN  IF t \in DOMAIN f /\ f[t].kind = "file"
        THEN Put(f, t, [f[t] EXCEPT !.content = content])
        ELSE Put(f, t, FileEntry(content, perm, ProcessUser, ProcessUser))

\* syscall.Chown: an empty name leaves that id as it is
Chown(f, p, owner, group) ==
    LET t == Target(f, p)
    IN  IF t \in DOMAIN f /\ f[t].kind = "file"
        THEN Put(f, t, [f[t] EXCEPT !.owner = IF owner = "" THEN @ ELSE owner,
                                    !.group = IF group = "" THEN @ ELSE group])
        ELSE f

DefaultMode == <<"0", "6", "0", "0">>

ProbeFile ==
    <<".", "o", "p", "n", "i", "x", "-", "w", "r", "i", "t", "e", "-", "t", "e", "s", "t">>

\* Processor.ensureDirectoryWritable when it succeeds: the probe file is
\* written into the directory and removed
EnsureDirectoryWritable(f, dir) ==
    LET testFile == Join(dir, ProbeFile)
    IN  Remove(WriteFile(f, testFile, "test", DefaultMode), testFile)

\* the loop of Processor.createSymlinks, n probe files written so far;
\* yields [err, fs, probes]
RECURSIVE CreateSymlinks(_, _, _, _)
CreateSymlinks(f, targetPath, symlinks, n) ==
    IF Len(symlinks) = 0 THEN [err |-> "ok", fs |-> f, probes |-> n]
    ELSE LET symlinkPath == Head(symlinks)
             checked == EnsureDirectoryWritable(f, Dir(symlinkPath))
         IN  IF ValidateSecretPath(symlinkPath) # "ok"
             THEN [err |-> ValidateSecretPath(symlinkPath), fs |-> f, probes |-> n]
             ELSE CreateSymlinks(Put(Remove(checked, symlinkPath), symlinkPath,
                                     LinkEntry(targetPath)),
                                 targetPath, Tail(symlinks), n + 1)

\* Processor.setOwnership: the lookups that can fail
SetOwnership(owner, group, users, groups) ==
    IF owner # "" /\ owner # "root" /\ owner \notin users THEN "owner_unknown"
    ELSE IF group # "" /\ group # "root" /\ group \notin groups THEN "group_unknown"
    ELSE "ok"

\* which of the system calls of processSecret go through: those of
\* ensureDirectoryWritable, os.WriteFile, syscall.Chown, and os.Remove and
\* os.Symlink
Outcomes == [dir : BOOLEAN, write : BOOLEAN, chown : BOOLEAN, link : BOOLEAN]

\* Processor.processSecret from setOwnership on, written being the disk
\* after os.WriteFile
SetOwnershipAndLink(s, io, outputPath, written) ==
    LET own == IF s.owner # "" \/ s.group # ""
               THEN SetOwnership(s.owner, s.group, sysUsers, sysGroups) ELSE "ok"
        links == CreateSymlinks(Chown(written, outputPath, s.owner, s.group),
                                outputPath, s.symlinks, 0)
    IN  IF own # "ok" THEN [err |-> own, fs |-> written, writes |-> 2]
        ELSE IF (s.owner # "" \/ s.group # "") /\ ~io.chown
             THEN [err |-> "chown_failed", fs |-> written, writes |-> 2]
        ELSE IF s.symlinks # <<>> /\ ~io.link
             THEN [err |-> "symlink_failed",
                   fs |-> Chown(written, outputPath, s.owner, s.group), writes |-> 2]
        ELSE [err |-> links.err, fs |-> links.fs, writes |-> 2 + links.probes]

\* Processor.processSecret from the parsing of the mode on, checked being
\* the disk after ensureDirectoryWritable
WriteSecretFile(s, value, io, outputPath, checked) ==
    LET mode == IF s.mode = <<>> THEN DefaultMode ELSE s.mode
    IN  IF \E i \in 1..Len(mode) : mode[i] \notin OctalDigits
        THEN [err |-> "mode_format", fs |-> checked, writes |-> 1]
        ELSE IF ~io.write THEN [err |-> "write_failed", fs |-> checked, writes |-> 1]
        ELSE SetOwnershipAndLink(s, io, outputPath,
                                 WriteFile(checked, outputPath, value, mode))

\* Processor.processSecret from validateSecretPath on, r being what
\* resolveSecretPathWithTemplate returned
WriteResolved(s, value, io, f, r) ==
    IF r.err # "ok" THEN [err |-> r.err, fs |-> f, writes |-> 0]
    ELSE IF ValidateSecretPath(r.path) # "ok"
         THEN [err |-> ValidateSecretPath(r.path), fs |-> f, writes |-> 0]
    ELSE IF ~io.dir THEN [err |-> "parent_dir", fs |-> f, writes |-> 0]
    ELSE WriteSecretFile(s, value, io, r.path, EnsureDirectoryWritable(f, Dir(r.path)))

\* Processor.processSecret after the vault returned value, io telling which
\* system calls go through; yields [err, fs, writes], writes counting the
\* os.WriteFile calls made
ProcessSecretSteps(s, value, io, f) ==
    WriteResolved(s, value, io, f,
                  ResolveSecretPathWithTemplate(s, pathTemplate, defaults, outputDir))

(***************************************************************************)
(* secretCommand.Run: Load, NewClient, Process                             *)
(***************************************************************************)
VaultValues == {"s3cr3t"}

PrerequisiteErrors == {"config_missing", "outdir"}

\* secretCommand.validatePrerequisites: the configuration file must exist,
\* checkOutputDirectory writes a probe file into the output directory and
\* removes it, and a token file that cannot be used is only warned about
ValidatePrerequisites ==
    /\ pc = "init"
    /\ \E configExists \in BOOLEAN, dirWritable \in BOOLEAN :
         IF ~configExists
         THEN pc' = "failed" /\ procErr' = "config_missing" /\ UNCHANGED fileWrites
         ELSE IF ~dirWritable
              THEN pc' = "failed" /\ procErr' = "outdir" /\ UNCHANGED fileWrites
              ELSE pc' = "start" /\ procErr' = "ok" /\ fileWrites' = fileWrites + 1
    /\ UNCHANGED <<manifest, pathTemplate, defaults, outputDir, sysUsers, sysGroups,
                   loadErr, idx, vaultCalls, fs, fvars, rvars>>

\* config.Load: the manifest is validated before anything else is done with it
Load ==
    /\ pc = "start"
    /\ loadErr' = ValidateConfigStruct(manifest, pathTemplate, defaults, sysUsers, sysGroups)
    /\ pc' = IF loadErr'.kind = "ok" THEN "loaded" ELSE "rejected"
    /\ UNCHANGED <<manifest, pathTemplate, defaults, outputDir, sysUsers, sysGroups,
                   idx, vaultCalls, fs, fileWrites, procErr, fvars, rvars>>

\* where a token can come from and what is there
TokenStates == {"env", "file", "file_unreadable", "file_empty", "none"}

TokenErrors == {"token_unreadable", "token_empty", "token_none"}

\* onepass.GetToken
GetToken(token) ==
    CASE token = "env" -> "ok"
      [] token = "file" -> "ok"
      [] token = "file_unreadable" -> "token_unreadable"
      [] token = "file_empty" -> "token_empty"
      [] OTHER -> "token_none"

\* onepass.NewClient: fails when no token can be read or the SDK refuses it
NewClient ==
    /\ pc = "loaded"
    /\ \E token \in TokenStates, sdkOk \in BOOLEAN :
        /\ procErr' = IF GetToken(token) # "ok" THEN GetToken(token)
                      ELSE IF sdkOk THEN "ok" ELSE "client"
        /\ pc' = IF procErr' = "ok" THEN "ready" ELSE "failed"
    /\ UNCHANGED <<manifest, pathTemplate, defaults, outputDir, sysUsers, sysGroups,
                   loadErr, idx, vaultCalls, fs, fileWrites, fvars, rvars>>

\* a processSecret that writes an empty value when the vault call fails
ProcessSecret_SubstituteValue ==
    /\ pc = "ready"
    /\ idx <= Len(manifest)
    /\ vaultCalls' = vaultCalls + 1
    /\ \E vaultOk \in BOOLEAN, value \in VaultValues, io \in Outcomes :
        LET r == ProcessSecretSteps(manifest[idx], IF vaultOk THEN value ELSE "", io, fs)
        IN  /\ fs' = r.fs
            /\ fileWrites' = fileWrites + r.writes
            /\ procErr' = IF vaultOk THEN r.err ELSE "vault"
            /\ pc' = IF procErr' # "ok" THEN "failed"
                     ELSE IF idx = Len(manifest) THEN "done" ELSE "ready"
            /\ idx' = IF procErr' = "ok" THEN idx + 1 ELSE idx
    /\ UNCHANGED <<manifest, pathTemplate, defaults, outputDir, sysUsers, sysGroups, loadErr,
                   fvars, rvars>>

\* a loop that goes on to the next secret after a failure
ProcessSecret_KeepGoing ==
    /\ pc = "ready"
    /\ idx <= Len(manifest)
    /\ vaultCalls' = vaultCalls + 1
    /\ \E vaultOk \in BOOLEAN, value \in VaultValues, io \in Outcomes :
        LET r == ProcessSecretSteps(manifest[idx], value, io, fs)
        IN  /\ fs' = IF vaultOk THEN r.fs ELSE fs
            /\ fileWrites' = fileWrites + (IF vaultOk THEN r.writes ELSE 0)
            /\ procErr' = IF ~vaultOk THEN "vault"
                          ELSE IF r.err # "ok" THEN r.err ELSE procErr
            /\ pc' = IF idx = Len(manifest) THEN "done" ELSE "ready"
            /\ idx' = idx + 1
    /\ UNCHANGED <<manifest, pathTemplate, defaults, outputDir, sysUsers, sysGroups, loadErr,
                   fvars, rvars>>

\* one iteration of the loop of Processor.Process: processSecret on the
\* secret at idx
ProcessSecret ==
    /\ pc = "ready"
    /\ idx <= Len(manifest)
    /\ vaultCalls' = vaultCalls + 1
    /\ \E vaultOk \in BOOLEAN, value \in VaultValues, io \in Outcomes :
        LET r == ProcessSecretSteps(manifest[idx], value, io, fs)
        IN  IF ~vaultOk
            THEN /\ procErr' = "vault"
                 /\ pc' = "failed"
                 /\ UNCHANGED <<fs, idx, fileWrites>>
            ELSE /\ fs' = r.fs
                 /\ fileWrites' = fileWrites + r.writes
                 /\ procErr' = r.err
                 /\ pc' = IF r.err # "ok" THEN "failed"
                          ELSE IF idx = Len(manifest) THEN "done" ELSE "ready"
                 /\ idx' = IF r.err = "ok" THEN idx + 1 ELSE idx
    /\ UNCHANGED <<manifest, pathTemplate, defaults, outputDir, sysUsers, sysGroups, loadErr,
                   fvars, rvars>>

PipelineNext == ValidatePrerequisites \/ Load \/ NewClient \/ ProcessSecret

(***************************************************************************)
(* internal/systemd: the hash store                                        *)
(***************************************************************************)
\* SHA-256 of a content, taken to be free of collisions
HashOf(content) == <<"sha256", content>>

RECURSIVE SetToSeq(_)
SetToSeq(S) ==
    IF S = {} THEN <<>>
    ELSE LET x == CHOOSE y \in S : TRUE IN <<x>> \o SetToSeq(S \ {x})

Range(q) == {q[i] : i \in DOMAIN q}

\* HashStore.save: the store as the JSON document written to the hash file
Marshal(hashes) ==
    SetToSeq({[key |-> k, path |-> hashes[k].path, hash |-> hashes[k].hash,
               lastModified |-> hashes[k].lastModified] : k \in DOMAIN hashes})

\* HashStore.load: the map read back from the document
Unmarshal(doc) ==
    [k \in {e.key : e \in Range(doc)} |->
        LET e == CHOOSE x \in Range(doc) : x.key = k
        IN  [path |-> e.path, hash |-> e.hash, lastModified |-> e.lastModified]]

SecretHash(p, h, t) == [path |-> p, hash |-> h, lastModified |-> t]

\* yields [changed, err, hashes]
HasChanged_ByModTime(hashes, f, filePath) ==
    IF filePath \notin DOMAIN f THEN [changed |-> FALSE, err |-> TRUE, hashes |-> hashes]
    ELSE LET rec == SecretHash(filePath, HashOf(f[filePath].content), f[filePath].mtime)
         IN  IF filePath \notin DOMAIN hashes \/ hashes[filePath].lastModified # rec.lastModified
             THEN [changed |-> TRUE, err |-> FALSE, hashes |-> Put(hashes, filePath, rec)]
             ELSE [changed |-> FALSE, err |-> FALSE, hashes |-> hashes]

HasChanged_NoUpdate(hashes, f, filePath) ==
    IF filePath \notin DOMAIN f THEN [changed |-> FALSE, err |-> TRUE, hashes |-> hashes]
    ELSE LET rec == SecretHash(filePath, HashOf(f[filePath].content), f[filePath].mtime)
         IN  IF filePath \notin DOMAIN hashes
             THEN [changed |-> TRUE, err |-> FALSE, hashes |-> Put(hashes, filePath, rec)]
             ELSE IF hashes[filePath].hash # rec.hash
                  THEN [changed |-> TRUE, err |-> FALSE, hashes |-> hashes]
             ELSE [changed |-> FALSE, err |-> FALSE, hashes |-> hashes]

HasChanged(hashes, f, filePath) ==
    IF filePath \notin DOMAIN f THEN [changed |-> FALSE, err |-> TRUE, hashes |-> hashes]
    ELSE LET rec == SecretHash(filePath, HashOf(f[filePath].content), f[filePath].mtime)
         IN  IF filePath \notin DOMAIN hashes
             THEN [changed |-> TRUE, err |-> FALSE, hashes |-> Put(hashes, filePath, rec)]
             ELSE IF hashes[filePath].hash # rec.hash
                  THEN [changed |-> TRUE, err |-> FALSE, hashes |-> Put(hashes, filePath, rec)]
             ELSE [changed |-> FALSE, err |-> FALSE, hashes |-> hashes]

(***************************************************************************)
(* internal/systemd: service actions                                       *)
(***************************************************************************)
ServiceAction(name, restart, signal) == [name |-> name, restart |-> restart, signal |-> signal]

\* the action of one entry of a detailed services map
PolicyAction(name, policy) ==
    ServiceAction(name,
                  IF policy.hasRestart THEN policy.restart ELSE cfg.restartOnChange,
                  policy.signal)

\* yields [err, actions]; the order in which a services map is walked does
\* not outlive the regrouping by name in processServiceActions
ExtractServiceActions(s) ==
    CASE s.services.kind = "none" -> [err |-> FALSE, actions |-> <<>>]
      [] s.services.kind = "list" ->
            [err |-> FALSE,
             actions |-> [i \in 1..Len(s.services.names) |->
                            ServiceAction(s.services.names[i], cfg.restartOnChange, "")]]
      [] s.services.kind = "map" ->
            LET names == SetToSeq(DOMAIN s.services.policies)
            IN  [err |-> FALSE,
                 actions |-> [i \in 1..Len(names) |->
                                PolicyAction(names[i], s.services.policies[names[i]])]]
      [] OTHER -> [err |-> TRUE, actions |-> <<>>]

\* a grouping that keeps the first action of each service
RECURSIVE Dedup_FirstWins(_, _)
Dedup_FirstWins(actions, acc) ==
    IF Len(actions) = 0 THEN acc
    ELSE LET a == Head(actions)
         IN  IF a.name \in DOMAIN acc
             THEN Dedup_FirstWins(Tail(actions), acc)
             ELSE Dedup_FirstWins(Tail(actions), Put(acc, a.name, a))

\* the grouping by service name at the head of processServiceActions
RECURSIVE Dedup(_, _)
Dedup(actions, acc) ==
    IF Len(actions) = 0 THEN acc
    ELSE LET a == Head(actions)
         IN  IF a.name \in DOMAIN acc
             THEN IF a.restart /\ ~acc[a.name].restart
                  THEN Dedup(Tail(actions), Put(acc, a.name, a))
                  ELSE Dedup(Tail(actions), acc)
             ELSE Dedup(Tail(actions), Put(acc, a.name, a))

ActionKind(action) ==
    IF action.signal # "" THEN "signal"
    ELSE IF action.restart THEN "restart" ELSE "reload"

NoFailure == -1

Dispatch(name, kind, attempt, slept, ok) ==
    [name |-> name, kind |-> kind, attempt |-> attempt, slept |-> slept, ok |-> ok]

\* the time.Sleep before an attempt
Backoff_Constant(attempt) == IF attempt > 0 THEN 1 ELSE 0

Backoff(attempt) == IF attempt > 0 THEN attempt ELSE 0

\* the retry loop of executeServiceAction from attempt on; nfail dispatches
\* fail before one succeeds; lastErr is the attempt of the last failure;
\* yields [log, err]
RECURSIVE ExecLoop(_, _, _, _, _)
ExecLoop(action, attempt, nfail, lastErr, log) ==
    IF ~(attempt < cfg.maxRetries) THEN [log |-> log, err |-> lastErr]
    ELSE IF dryRun THEN [log |-> log, err |-> NoFailure]
    ELSE LET ok == attempt >= nfail
             entry == Dispatch(action.name, ActionKind(action), attempt, Backoff(attempt), ok)
         IN  IF ok THEN [log |-> Append(log, entry), err |-> NoFailure]
             ELSE ExecLoop(action, attempt + 1, nfail, attempt, Append(log, entry))

ExecuteServiceAction(action, nfail) == ExecLoop(action, 0, nfail, NoFailure, <<>>)

\* the loop of processServiceActions over the grouped actions, walked in
\* order; yields [log, failures, err]
RECURSIVE ExecAll(_, _, _, _)
ExecAll(grouped, order, log, failed) ==
    IF Len(order) = 0 THEN [log |-> log, failures |-> failed, err |-> "nil"]
    ELSE LET name == Head(order)
             r == ExecuteServiceAction(grouped[name], failsBefore[name])
         IN  IF r.err # NoFailure
             THEN IF ~cfg.continueOnError
                  THEN [log |-> log \o r.log,
                        failures |-> Append(failed, [name |-> name, attempt |-> r.err]),
                        err |-> "service"]
                  ELSE ExecAll(grouped, Tail(order), log \o r.log,
                               Append(failed, [name |-> name, attempt |-> r.err]))
             ELSE ExecAll(grouped, Tail(order), log \o r.log, failed)

Perms(S) ==
    {q \in [1..Cardinality(S) -> S] : \A i, j \in 1..Cardinality(S) : i # j => q[i] # q[j]}

ProcessServiceActions(actions, order) == ExecAll(Dedup(actions, <<>>), order, <<>>, <<>>)

(***************************************************************************)
(* internal/systemd: Manager                                               *)
(***************************************************************************)
\* the file ProcessSecretChanges looks at for secret i; skip when it cannot
\* tell
SecretPathOf(i) ==
    IF manifest[i].path # <<>>
    THEN IF IsAbs(manifest[i].path) THEN [skip |-> FALSE, path |-> manifest[i].path]
         ELSE IF i \in DOMAIN secretPaths THEN [skip |-> FALSE, path |-> secretPaths[i]]
         ELSE [skip |-> TRUE, path |-> <<>>]
    ELSE [skip |-> FALSE, path |-> <<>>]

\* the loop of ProcessSecretChanges from secret i on; yields
\* [hashes, changed, actions, err]
RECURSIVE ChangeLoop(_, _, _, _)
ChangeLoop(i, hashes, changedSecrets, allActions) ==
    IF i > Len(manifest)
    THEN [hashes |-> hashes, changed |-> changedSecrets, actions |-> allActions, err |-> "nil"]
    ELSE LET sp == SecretPathOf(i)
             hc == IF cfg.changeDetection THEN HasChanged(hashes, files, sp.path)
                   ELSE [changed |-> TRUE, err |-> FALSE, hashes |-> hashes]
             ex == ExtractServiceActions(manifest[i])
         IN  IF sp.skip THEN ChangeLoop(i + 1, hashes, changedSecrets, allActions)
             ELSE IF hc.err
                  THEN IF cfg.continueOnError
                       THEN ChangeLoop(i + 1, hashes, changedSecrets, allActions)
                       ELSE [hashes |-> hashes, changed |-> changedSecrets,
                             actions |-> allActions, err |-> "hash"]
             ELSE IF ~hc.changed THEN ChangeLoop(i + 1, hc.hashes, changedSecrets, allActions)
             ELSE IF ex.err
                  THEN IF cfg.continueOnError
                       THEN ChangeLoop(i + 1, hc.hashes, Append(changedSecrets, i), allActions)
                       ELSE [hashes |-> hc.hashes, changed |-> Append(changedSecrets, i),
                             actions |-> allActions, err |-> "services"]
             ELSE ChangeLoop(i + 1, hc.hashes, Append(changedSecrets, i), allActions \o ex.actions)

NoDisk == [state |-> "missing", doc |-> <<>>]

CorruptDisk == [state |-> "corrupt", doc |-> <<>>]

\* the content of each secret's output file, "" when there is none
Contents(f) ==
    [i \in 1..Len(manifest) |->
        LET r == ResolveSecretPathWithTemplate(manifest[i], pathTemplate, defaults, outputDir)
        IN  IF r.err = "ok" /\ r.path \in DOMAIN f THEN f[r.path].content ELSE ""]

\* NewManager: with change detection on, NewHashStore loads the hash file
\* when there is one
NewManager ==
    /\ mgr = "none"
    /\ IF ~cfg.changeDetection \/ diskStore.state = "missing"
       THEN mgr' = "ready" /\ Hashes' = <<>>
       ELSE IF diskStore.state = "corrupt"
            THEN mgr' = "failed" /\ Hashes' = <<>>
            ELSE mgr' = "ready" /\ Hashes' = Unmarshal(diskStore.doc)
    /\ UNCHANGED <<cfg, dryRun, secretPaths, failsBefore, saveOk, files, diskStore,
                   clock, horizon, runPre, prevRun, changed, dispatches, failures, result,
                   saved, lastCall, pvars, fvars>>

\* a ProcessSecretChanges that writes the hash file after the dispatch, and
\* only when no service action failed
ProcessSecretChanges_SaveAfterDispatch ==
    /\ mgr = "ready"
    /\ mgr' = "done"
    /\ runPre' = [hashes |-> Hashes, contents |-> Contents(files)]
    /\ LET r == ChangeLoop(1, Hashes, <<>>, <<>>)
           save == Len(r.changed) > 0 /\ cfg.changeDetection
       IN  IF ~cfg.enable
           THEN /\ result' = "nil"
                /\ UNCHANGED <<Hashes, diskStore, changed, dispatches, failures, saved>>
           ELSE IF r.err # "nil"
           THEN /\ result' = r.err
                /\ Hashes' = r.hashes
                /\ changed' = r.changed
                /\ UNCHANGED <<diskStore, dispatches, failures, saved>>
           ELSE /\ Hashes' = r.hashes
                /\ changed' = r.changed
                /\ IF Len(r.actions) > 0
                   THEN \E order \in Perms(DOMAIN Dedup(r.actions, <<>>)) :
                          LET x == ProcessServiceActions(r.actions, order)
                          IN  /\ dispatches' = x.log
                              /\ failures' = x.failures
                              /\ result' = x.err
                   ELSE /\ result' = "nil"
                        /\ UNCHANGED <<dispatches, failures>>
                /\ saved' = (save /\ saveOk /\ failures' = <<>>)
                /\ diskStore' = IF save /\ saveOk /\ failures' = <<>>
                                THEN [state |-> "ok", doc |-> Marshal(r.hashes)]
                                ELSE diskStore
    /\ UNCHANGED <<cfg, dryRun, secretPaths, failsBefore, saveOk, files, clock, horizon,
                   prevRun, lastCall, pvars, fvars>>

\* Manager.ProcessSecretChanges
ProcessSecretChanges ==
    /\ mgr = "ready"
    /\ mgr' = "done"
    /\ runPre' = [hashes |-> Hashes, contents |-> Contents(files)]
    /\ LET r == ChangeLoop(1, Hashes, <<>>, <<>>)
           save == Len(r.changed) > 0 /\ cfg.changeDetection
       IN  IF ~cfg.enable
           THEN /\ result' = "nil"
                /\ UNCHANGED <<Hashes, diskStore, changed, dispatches, failures, saved>>
           ELSE IF r.err # "nil"
           THEN /\ result' = r.err
                /\ Hashes' = r.hashes
                /\ changed' = r.changed
                /\ UNCHANGED <<diskStore, dispatches, failures, saved>>
           ELSE /\ Hashes' = r.hashes
                /\ changed' = r.changed
                /\ saved' = (save /\ saveOk)
                /\ diskStore' = IF save /\ saveOk
                                THEN [state |-> "ok", doc |-> Marshal(r.hashes)]
                                ELSE diskStore
                /\ IF Len(r.actions) > 0
                   THEN \E order \in Perms(DOMAIN Dedup(r.actions, <<>>)) :
                          LET x == ProcessServiceActions(r.actions, order)
                          IN  /\ dispatches' = x.log
                              /\ failures' = x.failures
                              /\ result' = x.err
                   ELSE /\ result' = "nil"
                        /\ UNCHANGED <<dispatches, failures>>
    /\ UNCHANGED <<cfg, dryRun, secretPaths, failsBefore, saveOk, files, clock, horizon,
                   prevRun, lastCall, pvars, fvars>>

FileContents == {"v1", "v2"}

\* a materialization that went through (Processor.Process) as the files see
\* it: every secret is written with the value the vault returned, then a new
\* run of the manager begins
Materialize ==
    /\ clock < horizon
    /\ clock' = clock + 1
    /\ \E values \in [1..Len(manifest) -> FileContents] :
         LET pathOf == [i \in 1..Len(manifest) |->
                           ResolveSecretPathWithTemplate(manifest[i], pathTemplate, defaults,
                                                         outputDir).path]
             last(p) == CHOOSE i \in 1..Len(manifest) :
                            pathOf[i] = p /\ \A j \in 1..Len(manifest) : pathOf[j] = p => j <= i
         IN  files' = [p \in (DOMAIN files) \cup Range(pathOf) |->
                          IF p \in Range(pathOf)
                          THEN [content |-> values[last(p)], mtime |-> clock + 1]
                          ELSE files[p]]
    /\ prevRun' = [ran |-> mgr = "done", saved |-> saved, doc |-> diskStore.doc,
                    contents |-> Contents(files), failures |-> failures]
    /\ mgr' = "none"
    /\ Hashes' = <<>>
    /\ changed' = <<>>
    /\ dispatches' = <<>>
    /\ failures' = <<>>
    /\ result' = "nil"
    /\ saved' = FALSE
    /\ runPre' = [hashes |-> <<>>, contents |-> <<>>]
    /\ UNCHANGED <<cfg, dryRun, secretPaths, failsBefore, saveOk, diskStore, horizon,
                   lastCall, pvars, fvars>>

ManagerNext == Materialize \/ NewManager \/ ProcessSecretChanges

(***************************************************************************)
(* Manifests                                                               *)
(***************************************************************************)
ValidReference == RefScheme \o <<"V", "/", "I", "/", "f">>

NoServices == [kind |-> "none", names |-> <<>>, policies |-> <<>>]

Secret(path, variables, symlinks) ==
    [reference |-> ValidReference, path |-> path, variables |-> variables,
     owner |-> "", group |-> "", mode |-> <<>>, symlinks |-> symlinks,
     services |-> NoServices]

NoVars == <<>>

VarN(value) == (<<"n">> :> value)

\* secrets that differ in path, variables and symlinks
PathSecrets ==
    { Secret(<<"a">>, NoVars, <<>>),
      Secret(<<"/", "o", "/", "a">>, NoVars, <<>>),
      Secret(<<".", "/", "a">>, NoVars, <<>>),
      Secret(<<"{", "n", "}">>, VarN(<<"a">>), <<>>),
      Secret(<<>>, VarN(<<"a">>), <<>>),
      Secret(<<>>, VarN(<<"b">>), <<>>),
      Secret(<<>>, NoVars, <<>>),
      Secret(<<"b">>, NoVars, <<<<"a">>>>),
      Secret(<<"b">>, NoVars, << <<"/", "s">>, <<"/", "s">> >>),
      Secret(<<"c">>, NoVars, <<<<"c">>>>),
      Secret(<<"c">>, NoVars, <<<<"/", "t">>>>),
      Secret(<<"d">>, NoVars, <<<<"/", "t">>>>),
      Secret(<<".", ".">>, NoVars, <<>>),
      Secret(<<"/", "a", "/", ".", ".", "/", "b">>, NoVars, <<>>),
      Secret(<<"a", ".", ".", "b">>, NoVars, <<>>),
      Secret(<<"{", "n", "}">>, VarN(<<".", ".">>), <<>>),
      Secret(<<"{", "n", "}", "{", "n", "}">>, VarN(<<".">>), <<>>),
      Secret(<<"e">>, NoVars, <<<<"/", "s", "/", ".", ".">>>>),
      Secret(<<"e">>, NoVars, <<<<".", ".", "/", "s">>>>),
      Secret(<<"/", "b", "i", "n", "/", "a">>, NoVars, <<>>) }

PathTemplates == { <<>>, <<"/", "o", "/", "{", "n", "}">> }

DefaultMaps == { NoVars, VarN(<<"a">>) }

RECURSIVE SeqsUpTo(_, _)
SeqsUpTo(S, n) ==
    IF n = 0 THEN {<<>>}
    ELSE LET shorter == SeqsUpTo(S, n - 1)
         IN  shorter \cup {Append(q, x) : q \in {t \in shorter : Len(t) = n - 1}, x \in S}

\* the command is about to run
PipelineBegin ==
    /\ outputDir = <<"/", "o">>
    /\ pc = "init"
    /\ loadErr = NoError
    /\ idx = 1
    /\ vaultCalls = 0
    /\ fileWrites = 0
    /\ procErr = "ok"

PipelineStart == PipelineBegin /\ fs = <<>>

\* no reference is under validation
ReferenceIdle == refIn = <<>> /\ refOut = "none"

NotLoaded == [err |-> Err("none", 0), doc |-> 0, config |-> NoConfig]

\* no documents are being merged
MergeIdle == docs = <<>> /\ merged = NotLoaded

NotResolved ==
    [made |-> FALSE, valid |-> NoError, validator |-> [err |-> "none", path |-> <<>>],
     processor |-> [err |-> "none", path |-> <<>>]]

NoSubst == [pc |-> "idle", result |-> <<>>, err |-> "ok"]

\* no path is being resolved
ResolveIdle == resOut = NotResolved /\ subst = NoSubst

NoFile == [exists |-> FALSE, data |-> <<>>]

FileWith(data) == [exists |-> TRUE, data |-> data]

NotRead == [read |-> FALSE, file |-> NoFile]

\* no secret file is being written
WriteIdle ==
    /\ wf = [pc |-> "idle", prior |-> NoFile, data |-> <<>>, n |-> 0]
    /\ onDisk = NoFile
    /\ observed = NotRead

DefaultConfig ==
    [enable |-> FALSE, restartOnChange |-> TRUE, changeDetection |-> TRUE,
     continueOnError |-> TRUE, maxRetries |-> 3]

NoRun == [hashes |-> <<>>, contents |-> <<>>]

NoPrevRun == [ran |-> FALSE, saved |-> FALSE, doc |-> <<>>, contents |-> <<>>, failures |-> <<>>]

NoCall ==
    [made |-> FALSE, path |-> <<>>, content |-> "", before |-> <<>>, changed |-> FALSE,
     err |-> FALSE, seenBefore |-> {}, seenAfter |-> {}]

\* what a run of the manager starts from
RunStart ==
    /\ Hashes = <<>>
    /\ runPre = NoRun
    /\ prevRun = NoPrevRun
    /\ changed = <<>>
    /\ dispatches = <<>>
    /\ failures = <<>>
    /\ result = "nil"
    /\ saved = FALSE
    /\ lastCall = NoCall
    /\ clock = 0

\* no systemd integration is configured
ManagerIdle ==
    /\ cfg = DefaultConfig
    /\ dryRun = FALSE
    /\ secretPaths = <<>>
    /\ failsBefore = <<>>
    /\ saveOk = TRUE
    /\ files = <<>>
    /\ diskStore = NoDisk
    /\ mgr = "idle"
    /\ horizon = 0
    /\ RunStart

\* manifests of up to MaxSecrets secrets that differ in their paths
InitPaths ==
    /\ manifest \in SeqsUpTo(PathSecrets, MaxSecrets)
    /\ pathTemplate \in PathTemplates
    /\ defaults \in DefaultMaps
    /\ sysUsers = {}
    /\ sysGroups = {}
    /\ PipelineStart
    /\ ReferenceIdle
    /\ MergeIdle
    /\ ResolveIdle
    /\ WriteIdle
    /\ ManagerIdle

SpecPaths == InitPaths /\ [][PipelineNext]_vars

ModeAlphabet == {"0", "2", "4", "7", "9"}

ModeStrings == SeqsUpTo(ModeAlphabet, MaxModeLen)

Owners == {"", "root", "alice", "ghost"}

Groups == {"", "root", "wheel", "ghost"}

\* the i-th of the valid secrets that precede the secret under test
RECURSIVE FillerPath(_)
FillerPath(i) == IF i = 0 THEN <<>> ELSE <<"f">> \o FillerPath(i - 1)

Fillers(k) == [i \in 1..k |-> Secret(FillerPath(i), NoVars, <<>>)]

\* manifests whose last secret differs in mode, owner and group
InitMode ==
    /\ \E k \in 0..(MaxSecrets - 1), mode \in ModeStrings, owner \in Owners, group \in Groups :
         manifest = Append(Fillers(k),
                           [Secret(<<"m">>, NoVars, <<>>) EXCEPT
                               !.mode = mode, !.owner = owner, !.group = group])
    /\ pathTemplate = <<>>
    /\ defaults = NoVars
    /\ sysUsers = {"alice"}
    /\ sysGroups = {"wheel"}
    /\ PipelineStart
    /\ ReferenceIdle
    /\ MergeIdle
    /\ ResolveIdle
    /\ WriteIdle
    /\ ManagerIdle

SpecMode == InitMode /\ [][PipelineNext]_vars

\* the pipeline of the secret command is not running
PipelineIdle ==
    /\ outputDir = <<"/", "o">>
    /\ pc = "idle"
    /\ loadErr = NoError
    /\ idx = 1
    /\ vaultCalls = 0
    /\ fs = <<>>
    /\ fileWrites = 0
    /\ procErr = "ok"
    /\ sysUsers = {}
    /\ sysGroups = {}

RefAlphabet == {"/", "a"}

BadScheme == <<"o", "p", ":", "/">>

\* references: nothing, the scheme or a damaged scheme, then up to MaxRefTail
\* characters
References ==
    {prefix \o tail : prefix \in {<<>>, RefScheme, BadScheme},
                      tail \in SeqsUpTo(RefAlphabet, MaxRefTail)}

InitReference ==
    /\ refIn \in References
    /\ refOut = "none"
    /\ MergeIdle
    /\ ResolveIdle
    /\ WriteIdle
    /\ manifest = <<>>
    /\ pathTemplate = <<>>
    /\ defaults = NoVars
    /\ PipelineIdle
    /\ ManagerIdle

\* a call of validateReference
CheckReference ==
    /\ refOut = "none"
    /\ refOut' = ValidateReference(refIn)
    /\ UNCHANGED <<refIn, docs, merged, resOut, subst, wf, onDisk, observed, pvars, rvars>>

SpecReference == InitReference /\ [][CheckReference]_vars

ServiceNames == {"s1", "s2"}

ListOf(names) == [kind |-> "list", names |-> names, policies |-> <<>>]

MapOf(policies) == [kind |-> "map", names |-> <<>>, policies |-> policies]

\* a services value that is neither a list nor a map
InvalidServices == [kind |-> "invalid", names |-> <<>>, policies |-> <<>>]

Policy(hasRestart, restart, signal) ==
    [hasRestart |-> hasRestart, restart |-> restart, signal |-> signal]

WithServices(s, services) == [s EXCEPT !.services = services]

AbsSecret == Secret(<<"/", "x">>, NoVars, <<>>)

RelSecret == Secret(<<"r">>, NoVars, <<>>)

\* a secret whose path comes from the path template
TemplateSecret == Secret(<<>>, VarN(<<"t">>), <<>>)

RunTemplate == <<"/", "o", "/", "{", "n", "}">>

\* manifests of secrets with an absolute, a relative and a template-derived
\* path and the services that depend on them
RunManifests ==
    { << WithServices(AbsSecret, ListOf(<<"s1">>)),
         WithServices(RelSecret, ListOf(<<"s2">>)) >>,
      << WithServices(AbsSecret, ListOf(<<"s1", "s2">>)),
         WithServices(RelSecret, ListOf(<<"s1">>)) >>,
      << WithServices(TemplateSecret, ListOf(<<"s1">>)),
         WithServices(AbsSecret, ListOf(<<"s2">>)) >>,
      << WithServices(RelSecret, MapOf("s1" :> Policy(TRUE, TRUE, ""))),
         WithServices(AbsSecret, MapOf("s1" :> Policy(FALSE, FALSE, "") @@
                                       "s2" :> Policy(FALSE, FALSE, "HUP"))) >>,
      << WithServices(AbsSecret, InvalidServices),
         WithServices(RelSecret, MapOf("s2" :> Policy(TRUE, FALSE, ""))) >>,
      << WithServices(AbsSecret, NoServices),
         WithServices(RelSecret, ListOf(<<"s1">>)) >>,
      << WithServices(AbsSecret, MapOf("s1" :> Policy(TRUE, FALSE, ""))),
         WithServices(RelSecret, MapOf("s1" :> Policy(TRUE, TRUE, ""))) >> }

\* the manifests whose services are all well formed lists
ExecManifests == {m \in RunManifests : \A i \in 1..Len(m) : m[i].services.kind = "list"}

\* where the caller says the relative secrets of a manifest were written
PathsOfRelative(m) ==
    [i \in {j \in 1..Len(m) : m[j].path # <<>> /\ ~IsAbs(m[j].path)} |->
        ResolveSecretPath(m[i].path, <<"/", "o">>)]

ManagerInputs ==
    /\ manifest \in RunManifests
    /\ pathTemplate = RunTemplate
    /\ defaults = NoVars
    /\ secretPaths \in {PathsOfRelative(manifest), <<>>}
    /\ files = <<>>
    /\ mgr = "none"
    /\ RunStart
    /\ PipelineIdle
    /\ ReferenceIdle
    /\ MergeIdle
    /\ ResolveIdle
    /\ WriteIdle

\* successive runs against a service manager that does what it is asked
InitRuns ==
    /\ cfg \in [enable : BOOLEAN, restartOnChange : BOOLEAN, changeDetection : BOOLEAN,
                continueOnError : BOOLEAN, maxRetries : {3}]
    /\ dryRun = FALSE
    /\ failsBefore = [n \in ServiceNames |-> 0]
    /\ saveOk \in BOOLEAN
    /\ diskStore \in (IF cfg.changeDetection THEN {NoDisk, CorruptDisk} ELSE {NoDisk})
    /\ horizon = MaxRuns
    /\ ManagerInputs

SpecRuns == InitRuns /\ [][ManagerNext]_vars

\* one run against a service manager whose dispatches may fail
InitExec ==
    /\ cfg \in [enable : {TRUE}, restartOnChange : BOOLEAN, changeDetection : {FALSE},
                continueOnError : BOOLEAN, maxRetries : (-1)..MaxRetriesBound]
    /\ dryRun \in BOOLEAN
    /\ failsBefore \in [ServiceNames -> 0..MaxRetriesBound]
    /\ saveOk = TRUE
    /\ diskStore = NoDisk
    /\ horizon = 1
    /\ ManagerInputs
    /\ secretPaths = PathsOfRelative(manifest)
    /\ manifest \in ExecManifests

SpecExec == InitExec /\ [][ManagerNext]_vars

\* successive runs with change detection against a service manager in which
\* some services never come up
InitRedeploy ==
    /\ cfg \in [enable : {TRUE}, restartOnChange : {TRUE}, changeDetection : {TRUE},
                continueOnError : BOOLEAN, maxRetries : {2}]
    /\ dryRun = FALSE
    /\ failsBefore \in [ServiceNames -> {0, MaxRetriesBound}]
    /\ saveOk \in BOOLEAN
    /\ diskStore = NoDisk
    /\ horizon = MaxRuns
    /\ ManagerInputs
    /\ secretPaths = PathsOfRelative(manifest)
    /\ manifest \in ExecManifests

SpecRedeploy == InitRedeploy /\ [][ManagerNext]_vars

HashPaths == {<<"/", "x">>, <<"/", "y">>}

\* a write of a secret file
WriteContent ==
    /\ clock < horizon
    /\ clock' = clock + 1
    /\ \E path \in HashPaths, content \in FileContents :
         files' = Put(files, path, [content |-> content, mtime |-> clock + 1])
    /\ UNCHANGED <<cfg, dryRun, secretPaths, failsBefore, saveOk, diskStore, mgr, Hashes,
                   horizon, runPre, prevRun, changed, dispatches, failures, result, saved,
                   lastCall, pvars, fvars>>

\* a call of hasChanged on the store
HasChangedCall ==
    /\ mgr = "ready"
    /\ \E path \in HashPaths :
         LET r == HasChanged(Hashes, files, path)
         IN  /\ Hashes' = r.hashes
             /\ lastCall' = [made |-> TRUE, path |-> path,
                             content |-> IF path \in DOMAIN files THEN files[path].content
                                         ELSE "",
                             before |-> Hashes, changed |-> r.changed, err |-> r.err,
                             seenBefore |-> lastCall.seenAfter,
                             seenAfter |-> IF r.err THEN lastCall.seenAfter
                                           ELSE lastCall.seenAfter \cup {path}]
    /\ UNCHANGED <<cfg, dryRun, secretPaths, failsBefore, saveOk, files, diskStore, mgr,
                   clock, horizon, runPre, prevRun, changed, dispatches, failures, result,
                   saved, pvars, fvars>>

HashNext == WriteContent \/ HasChangedCall

\* one hash store, empty at first, and the files it is asked about
InitHash ==
    /\ cfg = [DefaultConfig EXCEPT !.enable = TRUE]
    /\ dryRun = FALSE
    /\ secretPaths = <<>>
    /\ failsBefore = <<>>
    /\ saveOk = TRUE
    /\ diskStore = NoDisk
    /\ files = <<>>
    /\ mgr = "ready"
    /\ horizon = MaxWrites
    /\ RunStart
    /\ manifest = <<>>
    /\ pathTemplate = <<>>
    /\ defaults = NoVars
    /\ PipelineIdle
    /\ ReferenceIdle
    /\ MergeIdle
    /\ ResolveIdle
    /\ WriteIdle

SpecHash == InitHash /\ [][HashNext]_vars

\* the secret at path a under the output directory, in its variants of mode,
\* ownership and symlinks
WriteSecrets ==
    {[Secret(<<"a">>, NoVars, links) EXCEPT !.mode = mode, !.owner = who[1], !.group = who[2]] :
        links \in {<<>>, << <<"/", "l">> >>},
        mode \in {<<>>, <<"0", "6", "4", "0">>},
        who \in {<<"", "">>, <<"alice", "wheel">>}}

WriteManifests ==
    {<<s>> : s \in WriteSecrets} \cup {<<s, Secret(<<"b">>, NoVars, <<>>)>> : s \in WriteSecrets}

OldFile == FileEntry("old", <<"0", "6", "4", "4">>, "bob", "staff")

\* what is on disk before the command runs: nothing, a file at the path of
\* the secret, a symlink there, a file where a symlink is declared
PriorFiles ==
    {<<>>,
     <<"/", "o", "/", "a">> :> OldFile,
     <<"/", "o", "/", "a">> :> LinkEntry(<<"/", "t">>),
     <<"/", "l">> :> OldFile}

InitWrite ==
    /\ manifest \in WriteManifests
    /\ fs \in PriorFiles
    /\ pathTemplate = <<>>
    /\ defaults = NoVars
    /\ sysUsers = {"alice"}
    /\ sysGroups = {"wheel"}
    /\ PipelineBegin
    /\ ReferenceIdle
    /\ MergeIdle
    /\ ResolveIdle
    /\ WriteIdle
    /\ ManagerIdle

SpecWrite == InitWrite /\ [][PipelineNext]_vars

SomePolicy ==
    [enable |-> TRUE, restartOnChange |-> TRUE, changeDetection |-> TRUE,
     continueOnError |-> TRUE, maxRetries |-> 3]

OtherTemplate == <<"/", "p", "/", "{", "n", "}">>

\* documents with no secret, a secret at a path of its own or one that needs
\* a path template, and with or without template, defaults and policy
Documents ==
    {Config(secrets, template, extra[1], extra[2]) :
        secrets \in {<<>>, <<Secret(<<"a">>, NoVars, <<>>)>>, <<Secret(<<"b">>, NoVars, <<>>)>>,
                     <<Secret(<<>>, VarN(<<"t">>), <<>>)>>},
        template \in {<<>>, RunTemplate, OtherTemplate},
        extra \in {<<NoVars, ZeroPolicy>>, <<VarN(<<"d">>), SomePolicy>>}}

InitMerge ==
    /\ docs \in SeqsUpTo(Documents, MaxDocs) \ {<<>>}
    /\ merged = NotLoaded
    /\ ResolveIdle
    /\ WriteIdle
    /\ refIn = <<>>
    /\ refOut = "none"
    /\ manifest = <<>>
    /\ pathTemplate = <<>>
    /\ defaults = NoVars
    /\ PipelineIdle
    /\ ManagerIdle

\* a call of config.LoadMultiple
LoadDocuments ==
    /\ merged = NotLoaded
    /\ merged' = LoadMultiple(docs, sysUsers, sysGroups)
    /\ UNCHANGED <<refIn, refOut, docs, resOut, subst, wf, onDisk, observed, pvars, rvars>>

SpecMerge == InitMerge /\ [][LoadDocuments]_vars

(***************************************************************************)
(* Path resolution of one secret, by the validator and by the materializer *)
(***************************************************************************)
\* the sources of a path: plain names, placeholders, a pair of braces with no
\* name between them, absolute paths in and next to the locations the
\* validator refuses
ResolveSources ==
    { <<>>, <<"a">>, <<"{", "n", "}">>, <<"{", "a", "}", "{", "b", "}">>,
      <<"{", "b", "}", "{", "a", "}">>, <<"x", "/", "{", "n", "}">>, <<"{", "}">>,
      <<"/", "b", "i", "n">>, <<"/", "b", "i", "n", "/", "a">>, <<"/", "b", "i", "n", "x">>,
      <<"/", "/", "b", "i", "n", "/", "a">>,
      <<"/", "d", "e", "v", "/", "{", "n", "}">>, <<"/", "d", "e", "v", "{", "n", "}">>,
      <<"/", "s", "/", "a">> }

\* the symlinks of the secret: none, or one in, next to or away from a
\* location the validator refuses
ResolveLinks ==
    { <<>>, << <<"/", "b", "i", "n", "/", "l">> >>, << <<"/", "b", "i", "n", "l">> >>,
      << <<"/", "s", "/", "l">> >> }

\* variable maps: plain values, values that hold a placeholder, values that
\* hold two dots or a shell metacharacter
ResolveMaps ==
    { NoVars, VarN(<<"x">>), VarN(<<"{", "n", "}">>), VarN(<<".", ".">>), VarN(<<";">>),
      VarN(<<"$", "x">>),
      (<<"a">> :> <<"x">>) @@ (<<"b">> :> <<"y">>),
      (<<"a">> :> <<"{", "b", "}">>) @@ (<<"b">> :> <<"y">>),
      (<<"a">> :> <<"{", "b", "}">>) @@ (<<"b">> :> <<"{", "a", "}">>),
      (<<"a">> :> <<"{", "b", "}">>) @@ (<<"b">> :> <<"|">>),
      (<<"a">> :> <<"x">>) }

\* where Processor.substituteVariables starts for a secret
SubstStart(s, template) ==
    IF s.path = <<>> /\ template = <<>>
    THEN [pc |-> "failed", result |-> <<>>, err |-> "path_missing"]
    ELSE [pc |-> "loop", result |-> IF s.path # <<>> THEN s.path ELSE template, err |-> "ok"]

InitResolve ==
    /\ \E path \in ResolveSources, variables \in ResolveMaps, links \in ResolveLinks :
         manifest = <<Secret(path, variables, links)>>
    /\ pathTemplate \in {<<>>, <<"/", "t", "/", "{", "n", "}">>, <<"{", "a", "}">>}
    /\ defaults \in {NoVars, VarN(<<"d">>), (<<"b">> :> <<"e">>)}
    /\ resOut = NotResolved
    /\ subst = SubstStart(manifest[1], pathTemplate)
    /\ WriteIdle
    /\ ReferenceIdle
    /\ MergeIdle
    /\ PipelineIdle
    /\ ManagerIdle

\* the validation of the secret and the two resolutions of its path
ResolveCall ==
    /\ ~resOut.made
    /\ resOut' =
         [made |-> TRUE,
          valid |-> ValidateConfigStruct(manifest, pathTemplate, defaults, sysUsers, sysGroups),
          validator |-> ValidatorResolvePath(manifest[1].path, pathTemplate,
                                             manifest[1].variables, defaults),
          processor |-> ResolveSecretPathWithTemplate(manifest[1], pathTemplate, defaults,
                                                      outputDir)]
    /\ UNCHANGED <<refIn, refOut, docs, merged, subst, wf, onDisk, observed, pvars, rvars>>

\* one pass of the loop of Processor.substituteVariables
SubstituteStep ==
    /\ subst.pc = "loop"
    /\ subst' = ProcessorSubstIteration(subst.result, AllVars(manifest[1].variables, defaults))
    /\ UNCHANGED <<refIn, refOut, docs, merged, resOut, wf, onDisk, observed, pvars, rvars>>

ResolveNext == ResolveCall \/ SubstituteStep

SpecResolve == InitResolve /\ [][ResolveNext]_vars

\* the secrets with a path of their own, no symlink, and no template or
\* defaults in the configuration
InitSubstitute ==
    /\ \E path \in ResolveSources, variables \in ResolveMaps :
         manifest = <<Secret(path, variables, <<>>)>>
    /\ pathTemplate = <<>>
    /\ defaults = NoVars
    /\ resOut = NotResolved
    /\ subst = SubstStart(manifest[1], pathTemplate)
    /\ WriteIdle
    /\ ReferenceIdle
    /\ MergeIdle
    /\ PipelineIdle
    /\ ManagerIdle

\* the loop of the substitution is not suspended for ever
FairSpecSubstitute == InitSubstitute /\ [][ResolveNext]_vars /\ WF_vars(SubstituteStep)

(***************************************************************************)
(* Materialization next to files of other secrets and of other programs    *)
(***************************************************************************)
\* secrets in the output directory and beneath it, one of them at the name
\* of the probe file, one with a symlink in the root directory
FrameSecrets ==
    { Secret(ProbeFile, NoVars, <<>>),
      Secret(<<"b">>, NoVars, <<>>),
      Secret(<<"c">>, NoVars, << <<"/", "l">> >>),
      Secret(<<"s", "/", "d">>, NoVars, <<>>) }

\* what is on disk before the command runs: nothing, a file of another
\* program in the output directory, a file with the name of the probe file
\* in the output directory or in the root directory
FramePriorFiles ==
    {<<>>,
     <<"/", "o", "/", "x">> :> OldFile,
     Join(<<"/", "o">>, ProbeFile) :> OldFile,
     Join(<<"/">>, ProbeFile) :> OldFile}

InitFrame ==
    /\ manifest \in SeqsUpTo(FrameSecrets, MaxSecrets) \ {<<>>}
    /\ fs \in FramePriorFiles
    /\ pathTemplate = <<>>
    /\ defaults = NoVars
    /\ sysUsers = {}
    /\ sysGroups = {}
    /\ PipelineBegin
    /\ ReferenceIdle
    /\ MergeIdle
    /\ ResolveIdle
    /\ WriteIdle
    /\ ManagerIdle

SpecFrame == InitFrame /\ [][PipelineNext]_vars

(***************************************************************************)
(* The write of the secret file, step by step, next to a reader            *)
(***************************************************************************)
\* what the file holds before the write and what the vault returned
PriorData == {<<"o", "l", "d">>, <<"o">>}

SecretData == {<<"n", "e", "w">>, <<"s", "3", "c", "r", "3", "t">>, <<"k">>}

InitReplace ==
    /\ \E prior \in {NoFile} \cup {FileWith(d) : d \in PriorData}, data \in SecretData :
         /\ wf = [pc |-> "open", prior |-> prior, data |-> data, n |-> 0]
         /\ onDisk = prior
    /\ observed = NotRead
    /\ manifest = <<>>
    /\ pathTemplate = <<>>
    /\ defaults = NoVars
    /\ ReferenceIdle
    /\ MergeIdle
    /\ ResolveIdle
    /\ PipelineIdle
    /\ ManagerIdle

\* os.WriteFile opens the path with O_WRONLY|O_CREATE|O_TRUNC
OpenTruncate ==
    /\ wf.pc = "open"
    /\ onDisk' = FileWith(<<>>)
    /\ wf' = [wf EXCEPT !.pc = "write"]
    /\ UNCHANGED <<refIn, refOut, docs, merged, resOut, subst, observed, pvars, rvars>>

\* File.Write: the kernel takes some or all of the bytes that are left
WriteData ==
    /\ wf.pc = "write"
    /\ wf.n < Len(wf.data)
    /\ \E k \in (wf.n + 1)..Len(wf.data) :
         /\ onDisk' = FileWith(Take(wf.data, k))
         /\ wf' = [wf EXCEPT !.n = k]
    /\ UNCHANGED <<refIn, refOut, docs, merged, resOut, subst, observed, pvars, rvars>>

\* File.Close, once every byte is written
CloseFile ==
    /\ wf.pc = "write"
    /\ wf.n = Len(wf.data)
    /\ wf' = [wf EXCEPT !.pc = "closed"]
    /\ UNCHANGED <<refIn, refOut, docs, merged, resOut, subst, onDisk, observed, pvars, rvars>>

\* a dependent service reads the resolved path
ReadFile ==
    /\ wf.pc # "idle"
    /\ observed' = [read |-> TRUE, file |-> onDisk]
    /\ UNCHANGED <<refIn, refOut, docs, merged, resOut, subst, wf, onDisk, pvars, rvars>>

ReplaceNext == OpenTruncate \/ WriteData \/ CloseFile \/ ReadFile

SpecReplace == InitReplace /\ [][ReplaceNext]_vars

(***************************************************************************)
(* Properties of validation                                                *)
(***************************************************************************)
Validated ==
    \/ pc \in {"loaded", "rejected", "ready", "done"}
    \/ pc = "failed" /\ procErr \notin PrerequisiteErrors

Accepted == Validated /\ loadErr.kind = "ok"

\* the output path the materializer computes for secret i, when it computes one
OutputPath(i) == ResolveSecretPathWithTemplate(manifest[i], pathTemplate, defaults, outputDir)

\* two secrets of the manifest resolve to the same output path
SharedOutputPath ==
    \E i, j \in 1..Len(manifest) :
        /\ i < j
        /\ OutputPath(i).err = "ok"
        /\ OutputPath(j).err = "ok"
        /\ OutputPath(i).path = OutputPath(j).path

\* C1: a manifest in which two secrets resolve to the same output path
\* (placeholders substituted, a relative result joined under the output
\* directory) is rejected by validation, and no vault call is made for it.
C1_SharedPathRejectedBeforeVault ==
    SharedOutputPath => (Validated => loadErr.kind # "ok") /\ vaultCalls = 0

\* the path the validator resolves for secret i
ValidatorPath(i) ==
    ValidatorResolvePath(manifest[i].path, pathTemplate, manifest[i].variables, defaults)

\* the paths a manifest claims, in manifest order: each secret's resolved
\* output path followed by its symlink paths
RECURSIVE ClaimedPaths(_)
ClaimedPaths(i) ==
    IF i > Len(manifest) THEN <<>>
    ELSE <<ValidatorPath(i).path>> \o manifest[i].symlinks \o ClaimedPaths(i + 1)

PairwiseDistinct(q) == \A i, j \in 1..Len(q) : i # j => q[i] # q[j]

WorldWritableMode(mode) ==
    /\ Len(mode) > 0
    /\ \A i \in 1..Len(mode) : mode[i] \in OctalDigits
    /\ WorldWritable(ParseOctal(mode))

\* C7: a manifest with a secret whose mode has the world-write bit (0002)
\* set is rejected by validation whatever its owner and group are, and no
\* vault call is made for it.
C7_WorldWriteRejected ==
    (\E i \in 1..Len(manifest) : WorldWritableMode(manifest[i].mode))
        => (Validated => loadErr.kind # "ok") /\ vaultCalls = 0

\* a world-writable mode of a secret with a known owner and group was rejected
C7_Witness ==
    /\ pc = "rejected"
    /\ loadErr.kind = "mode_world_write"
    /\ manifest[loadErr.secret].owner = "alice"
    /\ manifest[loadErr.secret].group = "wheel"
    /\ loadErr.secret > 1

\* a path has a segment that is ".."
HasDotDotSegment(p) == \E k \in 1..Len(Split(p, <<"/">>)) : Split(p, <<"/">>)[k] = <<".", ".">>

\* secret i has a ".." segment in its output path, as written or as resolved,
\* or in one of its symlink paths
TraversalIn(i) ==
    \/ HasDotDotSegment(IF manifest[i].path # <<>> THEN manifest[i].path ELSE pathTemplate)
    \/ ValidatorPath(i).err = "ok" /\ HasDotDotSegment(ValidatorPath(i).path)
    \/ \E k \in 1..Len(manifest[i].symlinks) : HasDotDotSegment(manifest[i].symlinks[k])

WellFormedReference(r) ==
    /\ r # <<>>
    /\ HasPrefix(r, RefScheme)
    /\ LET parts == Split(TrimPrefix(r, RefScheme), "/")
       IN  Len(parts) >= 3 /\ \A i \in 1..Len(parts) : parts[i] # <<>>

C3_HasChangedContract ==
    (lastCall.made /\ ~lastCall.err) =>
        LET p == lastCall.path
            cur == HashOf(lastCall.content)
            before == lastCall.before
        IN  /\ p \notin lastCall.seenBefore =>
                  /\ lastCall.changed
                  /\ p \in DOMAIN Hashes
                  /\ Hashes[p].hash = cur
            /\ p \in lastCall.seenBefore =>
                  /\ p \in DOMAIN before
                  /\ lastCall.changed <=> before[p].hash # cur
                  /\ lastCall.changed => p \in DOMAIN Hashes /\ Hashes[p].hash = cur
                  /\ ~lastCall.changed => Hashes = before
            /\ \A q \in DOMAIN before : q # p => q \in DOMAIN Hashes /\ Hashes[q] = before[q]

\* a later call that found a new content and one record of another path
C3_Witness ==
    /\ lastCall.made
    /\ ~lastCall.err
    /\ lastCall.path \in lastCall.seenBefore
    /\ lastCall.changed
    /\ Cardinality(DOMAIN lastCall.before) = 2

\* the run at hand follows a run that saved the store and finds every secret
\* file with the content it had then
RedeployedUnchanged ==
    /\ mgr = "done"
    /\ prevRun.ran
    /\ prevRun.saved
    /\ runPre.hashes = Unmarshal(prevRun.doc)
    /\ Contents(files) = prevRun.contents

\* C4: when a run saved the hash store and the next run loads it and finds
\* every secret file with the same content, whatever the modification times,
\* no path is reported changed, no hash record is modified and nothing is
\* dispatched to the service manager.
C4_IdempotentRedeploy ==
    RedeployedUnchanged =>
        /\ changed = <<>>
        /\ Hashes = runPre.hashes
        /\ dispatches = <<>>

\* an unchanged redeployment whose files were rewritten since they were
\* recorded
C4_Witness ==
    /\ RedeployedUnchanged
    /\ \E p \in DOMAIN Hashes :
         p \in DOMAIN files /\ files[p].mtime # Hashes[p].lastModified

\* the file of secret i
FileOf(i) ==
    ResolveSecretPathWithTemplate(manifest[i], pathTemplate, defaults, outputDir).path

\* the content of secret i is not the one the store had when the run began
Differs(i) ==
    /\ FileOf(i) \in DOMAIN files
    /\ \/ FileOf(i) \notin DOMAIN runPre.hashes
       \/ runPre.hashes[FileOf(i)].hash # HashOf(files[FileOf(i)].content)

Declared(i) ==
    IF manifest[i].services.kind = "list" THEN Range(manifest[i].services.names)
    ELSE IF manifest[i].services.kind = "map" THEN DOMAIN manifest[i].services.policies
    ELSE {}

\* C5: in a run where exactly one secret's content differs from its stored
\* hash, exactly that secret is reported changed and the services dispatched
\* are the services declared for it, each once, whether the secret's path is
\* absolute, relative or derived from the path template.
C5_ExactlyTheChangedSecret ==
    (/\ mgr = "done"
     /\ cfg.enable
     /\ cfg.changeDetection
     /\ cfg.restartOnChange
     /\ secretPaths = PathsOfRelative(manifest)
     /\ \A i \in 1..Len(manifest) : manifest[i].services.kind # "invalid") =>
        \A i \in 1..Len(manifest) :
            (\A j \in 1..Len(manifest) : Differs(j) <=> j = i) =>
                /\ changed = <<i>>
                /\ {dispatches[k].name : k \in 1..Len(dispatches)} = Declared(i)
                /\ Len(dispatches) = Cardinality(Declared(i))

\* C6: with restartOnChange false no service action of any kind is
\* dispatched in the run.
C6_NoActionWithoutRestartOnChange ==
    (mgr = "done" /\ ~cfg.restartOnChange) => dispatches = <<>>

(***************************************************************************)
(* Properties of the retry loop                                            *)
(***************************************************************************)
RECURSIVE AttemptsOf(_, _)
AttemptsOf(name, log) ==
    IF Len(log) = 0 THEN <<>>
    ELSE IF Head(log).name = name THEN <<Head(log)>> \o AttemptsOf(name, Tail(log))
    ELSE AttemptsOf(name, Tail(log))

\* C10: the dispatch of one service action is made at most maxRetries times;
\* the attempts stop at the first success; the k-th retry is preceded by a
\* wait of k time units; when every attempt fails, the action ends with the
\* failure of the last attempt, and that failure is recorded for the service
\* that failed and for no other.
C10_BoundedRetry ==
    mgr = "done" =>
        \A name \in ServiceNames :
            LET a == AttemptsOf(name, dispatches)
                n == Len(a)
            IN  /\ n <= (IF cfg.maxRetries > 0 THEN cfg.maxRetries ELSE 0)
                /\ \A k \in 1..n :
                     /\ a[k].attempt = k - 1
                     /\ a[k].slept = k - 1
                     /\ a[k].ok => k = n
                /\ (n >= 1 /\ ~a[n].ok) =>
                     /\ n = cfg.maxRetries
                     /\ \E f \in Range(failures) : f.name = name /\ f.attempt = n - 1
                /\ \A f \in Range(failures) : f.name = name => n >= 1 /\ ~a[n].ok

\* a service that came up at its second retry while another one never did
C10_Witness ==
    /\ mgr = "done"
    /\ \E name \in ServiceNames :
         LET a == AttemptsOf(name, dispatches)
         IN  Len(a) = 3 /\ a[3].ok /\ a[3].slept = 2
    /\ Len(failures) = 1

(***************************************************************************)
(* Properties of the reconciliation of services                            *)
(***************************************************************************)
\* the services of the secrets the run reported changed
ServicesOfChanged == UNION {Declared(changed[k]) : k \in 1..Len(changed)}

Dispatched == {dispatches[k].name : k \in 1..Len(dispatches)}

\* C11: with continueOnError every deduplicated service action is attempted,
\* even after earlier ones failed, the failures are collected and the run
\* returns success; without it nothing is dispatched after the first action
\* that failed and the run returns that failure as an error.
C11_FailurePolicy ==
    (mgr = "done" /\ cfg.enable /\ ~dryRun) =>
        IF cfg.continueOnError
        THEN /\ Dispatched = ServicesOfChanged
             /\ result = "nil"
             /\ {failures[k].name : k \in 1..Len(failures)} =
                    {n \in ServicesOfChanged :
                        LET a == AttemptsOf(n, dispatches) IN Len(a) >= 1 /\ ~a[Len(a)].ok}
        ELSE IF failures = <<>>
             THEN result = "nil" /\ Dispatched = ServicesOfChanged
             ELSE /\ result = "service"
                  /\ Len(failures) = 1
                  /\ Len(dispatches) >= 1
                  /\ dispatches[Len(dispatches)].name = failures[1].name
                  /\ ~dispatches[Len(dispatches)].ok

\* the actions that the changed secrets contribute for a service
Contributions(name) ==
    {a \in UNION {Range(ExtractServiceActions(manifest[changed[k]]).actions) :
                     k \in 1..Len(changed)} : a.name = name}

\* C12: after the actions of all changed secrets are merged, each service is
\* dispatched at most once in the run, and when some contributing policy has
\* restart = true and another has not, the one with restart = true is kept,
\* whatever the order of the secrets in the manifest.
C12_DedupRestartWins ==
    mgr = "done" =>
        \A name \in ServiceNames :
            LET a == AttemptsOf(name, dispatches)
            IN  /\ Cardinality({k \in 1..Len(a) : a[k].attempt = 0}) <= 1
                /\ Len(a) <= 1
                /\ (Len(a) >= 1 /\ \E x \in Contributions(name) : x.restart) =>
                       \E x \in Contributions(name) : x.restart /\ a[1].kind = ActionKind(x)

\* a service whose reload policy came before its restart policy in the
\* manifest and that was restarted once
C12_Witness ==
    /\ mgr = "done"
    /\ Len(changed) = 2
    /\ \E x \in Range(ExtractServiceActions(manifest[changed[1]]).actions) :
         x.name = "s1" /\ ~x.restart
    /\ \E x \in Range(ExtractServiceActions(manifest[changed[2]]).actions) :
         x.name = "s1" /\ x.restart
    /\ Len(dispatches) = 1
    /\ dispatches[1].kind = "restart"

\* C13: opening the hash store never fails because of what the hash file
\* holds: with no file or an unparseable file the manager starts with an
\* empty store.
C13_StoreOpensEmpty ==
    (mgr \in {"ready", "failed"} /\ cfg.changeDetection
        /\ diskStore.state \in {"missing", "corrupt"}) =>
        mgr = "ready" /\ Hashes = <<>>

(***************************************************************************)
(* Properties of the run of the secret command                             *)
(***************************************************************************)
\* C14: when no token can be read (none in the environment and the token
\* file absent, unreadable or empty) the secret command makes no vault call,
\* leaves the files as they are and ends with success rather than an error.
C14_MissingTokenIsSuccess ==
    procErr \in TokenErrors => (pc # "failed" /\ vaultCalls = 0 /\ fs = <<>>)

\* Process has returned an error
ProcessFailed ==
    pc = "failed" /\ procErr \notin (PrerequisiteErrors \cup TokenErrors \cup {"client"})

\* the file of secret j is in place with the value the vault returned
Written(j) ==
    /\ Target(fs, OutputPath(j).path) \in DOMAIN fs
    /\ fs[Target(fs, OutputPath(j).path)].kind = "file"
    /\ fs[Target(fs, OutputPath(j).path)].content \in VaultValues

\* C15: Process returns success exactly when every secret of the manifest
\* materialized without error; at the first secret that fails it returns
\* that error, attempts no later secret and leaves the files of the earlier
\* secrets as written.
C15_ProcessStopsAtFirstFailure ==
    /\ pc = "done" =>
          /\ procErr = "ok"
          /\ vaultCalls = Len(manifest)
          /\ \A j \in 1..Len(manifest) : Written(j)
    /\ ProcessFailed =>
          /\ procErr # "ok"
          /\ idx <= Len(manifest)
          /\ vaultCalls = idx
          /\ \A j \in 1..(idx - 1) : Written(j)

\* the second secret failed after the first was written
C15_Witness ==
    /\ ProcessFailed
    /\ idx = 2
    /\ Written(1)
    /\ ~Written(2)

\* the declared state of secret j is what is on disk
Materialized(j) ==
    LET s == manifest[j]
        p == OutputPath(j).path
    IN  /\ p \in DOMAIN fs
        /\ fs[p].kind = "file"
        /\ fs[p].content \in VaultValues
        /\ fs[p].mode = (IF s.mode = <<>> THEN DefaultMode ELSE s.mode)
        /\ s.owner # "" => fs[p].owner = s.owner
        /\ s.group # "" => fs[p].group = s.group
        /\ \A k \in 1..Len(s.symlinks) : Target(fs, s.symlinks[k]) = p

\* C16: after the materialization of a secret returned success, whatever was
\* on disk before, the resolved path holds a regular file with the vault
\* value, the declared permission bits (0600 by default) and ownership, and
\* every declared symlink resolves to it.
C16_MaterializedAsDeclared ==
    (pc \in {"ready", "done"} /\ idx > 1) => Materialized(idx - 1)

(***************************************************************************)
(* Properties of LoadMultiple                                              *)
(***************************************************************************)
\* C17: LoadMultiple concatenates the secrets of the documents in order and
\* validates the merged manifest: it returns the merged manifest exactly when
\* the concatenated secrets pass validation under the final path template
\* and defaults, so a document that is valid only in the merged context is
\* accepted.
C17_MergedThenValidated ==
    merged # NotLoaded =>
        /\ merged.err.kind = "ok" <=>
              ValidateConfigStruct(AllSecrets(docs), FinalPathTemplate(docs),
                                   FinalDefaults(docs), sysUsers, sysGroups).kind = "ok"
        /\ merged.err.kind = "ok" => merged.config.secrets = AllSecrets(docs)

\* C18: in the manifest LoadMultiple returns, the path template, the
\* defaults and the service policy are those of the last document.
C18_LastDocumentWins ==
    (merged # NotLoaded /\ merged.err.kind = "ok") =>
        /\ merged.config.pathTemplate = docs[Len(docs)].pathTemplate
        /\ merged.config.defaults = docs[Len(docs)].defaults
        /\ merged.config.policy = docs[Len(docs)].policy

(***************************************************************************)
(* Properties of the rejection of a manifest                               *)
(***************************************************************************)
\* C19: whenever the manifest carries a configuration or validation error,
\* the run fails before any vault call and before any write to the file
\* system.
C19_RejectedBeforeAnyIO ==
    pc = "rejected" => (vaultCalls = 0 /\ fileWrites = 0)

OwnershipErrors == {"owner_unknown", "group_unknown"}

\* C20: validation returns one error, that of the first failing secret in
\* manifest order, and within a secret the checks run in the order
\* reference, path, collision, mode, owner and group: when the mode and the
\* ownership of a secret are both wrong, the error reported is the mode's.
C20_ErrorOfEarliestCheck ==
    (pc = "rejected" /\ loadErr.secret >= 1) =>
        LET k == loadErr.secret
        IN  /\ k > 1 => ValidateConfigStruct(SubSeq(manifest, 1, k - 1), pathTemplate,
                                             defaults, sysUsers, sysGroups).kind = "ok"
            /\ loadErr.kind \in OwnershipErrors => ValidateMode(manifest[k].mode) = "ok"

(***************************************************************************)
(* Properties of path resolution                                           *)
(***************************************************************************)
\* the template source of the secret under resolution
SourceOf == IF manifest[1].path # <<>> THEN manifest[1].path ELSE pathTemplate

\* the values of its variables, the secret's over the defaults
ValuesOf == AllVars(manifest[1].variables, defaults)

NameOf(placeholder) == SubSeq(placeholder, 2, Len(placeholder) - 1)

HasBrace(v) == Contains(v, <<"{">>) \/ Contains(v, <<"}">>)

\* what the claim asks of one resolution r, whose result for a relative
\* path is joined under base
ResolvedAsSpecified(r, base) ==
    /\ SourceOf = <<>> => r.err = "path_missing"
    /\ (SourceOf # <<>> /\ ~HasBrace(SourceOf)) =>
           r.err = "ok" /\ r.path = (IF base = <<>> THEN SourceOf
                                     ELSE ResolveSecretPath(SourceOf, base))
    /\ (\E ph \in Range(FindPlaceholders(SourceOf)) : NameOf(ph) \notin DOMAIN ValuesOf) =>
           r.err # "ok"
    /\ r.err = "ok" => \A ph \in Range(FindPlaceholders(SourceOf)) : ~Contains(r.path, ph)

\* C21: path resolution takes secret.path as the template source if it is
\* set and the global pathTemplate otherwise, fails when neither is set and
\* when a placeholder has no value among the secret's variables and the
\* defaults, and a path it returns holds no placeholder of the template.
C21_ResolutionContract ==
    resOut.made => /\ ResolvedAsSpecified(resOut.validator, <<>>)
                   /\ ResolvedAsSpecified(resOut.processor, outputDir)

\* a value with two dots in a row or a shell metacharacter
Unsafe(value) ==
    Contains(value, <<".", ".">>) \/ \E i \in 1..Len(value) : value[i] \in DangerousChars

\* the variables the placeholders of the template name
SubstitutedNames ==
    {NameOf(ph) : ph \in Range(FindPlaceholders(SourceOf))} \cap DOMAIN ValuesOf

\* C22: a variable value that is substituted into a path and holds ".." or
\* one of the shell metacharacters makes the resolution fail, the
\* validator's and the materializer's alike, and no path that the
\* materializer resolves for an accepted secret holds such a value.
C22_UnsafeValueFailsResolution ==
    resOut.made =>
        /\ (\E n \in SubstitutedNames : Unsafe(ValuesOf[n])) =>
               (resOut.validator.err # "ok" /\ resOut.processor.err # "ok")
        /\ (resOut.valid.kind = "ok" /\ resOut.processor.err = "ok") =>
               \A n \in DOMAIN ValuesOf :
                   Unsafe(ValuesOf[n]) => ~Contains(resOut.processor.path, ValuesOf[n])

(***************************************************************************)
(* Properties of the materialization of one secret                         *)
(***************************************************************************)
\* the path names a regular file that holds a value of the vault
HoldsValue(f, p) ==
    /\ Target(f, p) \in DOMAIN f
    /\ f[Target(f, p)].kind = "file"
    /\ f[Target(f, p)].content \in VaultValues

\* the file at p in g has the owner and group that os.WriteFile on f leaves
OwnershipUntouched(f, g, p) ==
    LET t == Target(f, p)
        before == IF t \in DOMAIN f /\ f[t].kind = "file" THEN f[t]
                  ELSE FileEntry("", <<>>, ProcessUser, ProcessUser)
    IN  (t \in DOMAIN g /\ g[t].kind = "file") =>
            (g[t].owner = before.owner /\ g[t].group = before.group)

OwnershipAsDeclared(g, p, s) ==
    /\ s.owner # "" => g[Target(g, p)].owner = s.owner
    /\ s.group # "" => g[Target(g, p)].group = s.group

\* the paths of the declared symlinks are in g as they are in f
SymlinksUntouched(f, g, s) ==
    \A k \in 1..Len(s.symlinks) :
        LET l == s.symlinks[k]
        IN  /\ l \in DOMAIN g <=> l \in DOMAIN f
            /\ l \in DOMAIN f => g[l] = f[l]

SymlinksCreated(g, p, s) ==
    \A k \in 1..Len(s.symlinks) :
        LET l == s.symlinks[k]
        IN  l \in DOMAIN g /\ g[l].kind = "link" /\ g[l].target = p

C24_AtomicReplace ==
    observed.read => observed.file \in {wf.prior, FileWith(wf.data)}

(***************************************************************************)
(* Properties of the denylist                                              *)
(***************************************************************************)
\* the path is one of the refused locations or lies beneath one
Beneath(p) ==
    \E d \in DangerousPaths : Clean(p) = d \/ HasPrefix(Clean(p), d \o <<"/">>)

\* C25: validation rejects an absolute output path or symlink path exactly
\* when it is one of the refused system locations or lies beneath one, and
\* accepts an absolute path outside all of them that passes the other
\* checks.
C25_DenylistExact ==
    resOut.made =>
        LET p == resOut.validator.path
            links == manifest[1].symlinks
        IN  /\ (resOut.validator.err = "ok" /\ IsAbs(p) /\ ~Contains(p, <<".", ".">>)) =>
                  /\ resOut.valid.kind = "path_dangerous" <=> Beneath(p)
                  /\ (~Beneath(p) /\ links = <<>>) => resOut.valid.kind = "ok"
            /\ (resOut.validator.err = "ok" /\ ValidatePath(p, {}).err = "ok"
                  /\ Len(links) = 1 /\ IsAbs(links[1]) /\ links[1] # p) =>
                  /\ resOut.valid.kind = "symlink_dangerous" <=> Beneath(links[1])
                  /\ ~Beneath(links[1]) => resOut.valid.kind = "ok"

(***************************************************************************)
(* Termination of the substitution                                         *)
(***************************************************************************)
\* C26: placeholder substitution terminates for every template and every
\* variable map, those in which the value of a variable holds a placeholder
\* included: the loop of the materializer's substitution comes to an end.
C26_SubstitutionTerminates == <>(subst.pc \in {"done", "failed"})

(***************************************************************************)
(* Agreement of the two resolutions                                        *)
(***************************************************************************)
\* C27: for a secret of a manifest that validation accepts, the path the
\* materializer computes and writes to is the path the validator resolved
\* and checked for uniqueness, joined under the output directory when it is
\* relative.
C27_ResolutionsAgree ==
    (resOut.made /\ resOut.valid.kind = "ok") =>
        /\ resOut.processor.err = "ok"
        /\ resOut.processor.path = ResolveSecretPath(resOut.validator.path, outputDir)

(***************************************************************************)
(* The frame of a materialization                                          *)
(***************************************************************************)
\* the paths the materialization of secret s may create or change: its
\* output path, the file that path names through symlinks, its symlinks
OwnPaths(s, p) == {p, Target(fs, p)} \cup Range(s.symlinks)

\* C28: the materialization of one secret creates or changes only the
\* output file of that secret and its declared symlinks: every other file,
\* the file of a secret materialized before it included, is there
\* afterwards exactly if it was there before, with the same content.
C28_OnlyOwnFiles ==
    [][(pc = "ready" /\ vaultCalls' = vaultCalls + 1) =>
          \A q \in ((DOMAIN fs) \cup (DOMAIN fs')) \ OwnPaths(manifest[idx], OutputPath(idx).path) :
              q \in DOMAIN fs /\ q \in DOMAIN fs' /\ fs'[q] = fs[q]]_vars

(***************************************************************************)
(* Properties of the dispatch and of the order of save and dispatch        *)
(***************************************************************************)
\* C29: executeServiceAction reports success only if a dispatch succeeded
\* (dry-run aside): whatever maxRetries is, zero and negative values
\* included, the action of a changed secret is attempted at least once, and
\* an action whose dispatch never succeeds is reported as a failure.
C29_SuccessNeedsDispatch ==
    (mgr = "done" /\ cfg.enable /\ ~dryRun /\ (cfg.continueOnError \/ failures = <<>>)) =>
        \A name \in ServicesOfChanged :
            LET a == AttemptsOf(name, dispatches)
            IN  /\ Len(a) >= 1
                /\ a[Len(a)].ok \/ \E f \in Range(failures) : f.name = name

====
